---- MODULE Spec2Model ----
(***************************************************************************)
(* Knowledge-graph fusion of deepnotes: the Entity / Relationship data     *)
(* model (models/models.py), the three storage backends                    *)
(* (storage/graph_storage.py), and the two fusion engines                  *)
(* (processors/knowledge_processor.py, processors/fusion_processor.py).    *)
(*                                                                         *)
(* A record carries, besides its field values, "fset": the names of the    *)
(* fields that were explicitly set (pydantic's model_fields_set), which    *)
(* is what model_dump(exclude_unset=True) serialises.                      *)
(***************************************************************************)
EXTENDS Naturals, Sequences, FiniteSets, TLC

VARIABLES
    driver,     \* who calls the code: "storage" (backend API), "kp", "fusion",
                \* "loader" (WebDocumentLoader), "pipeline" (DeepNotesEngine), "llm"
    backend,    \* "memory" | "networkx" | "neo4j" | "none" (fusion)
    ents,       \* backend: entity id -> stored record
    rels,       \* backend: relationship id -> stored record
    cEnts,      \* KnowledgeProcessor._base_graph.entities (id -> record)
    cRels,      \* KnowledgeProcessor._base_graph.relationships (id -> record)
    shA,        \* ids whose cached entity shares its attributes dict with the backend's
    shM,        \* ids whose cached entity shares its metadata dict with the backend's
    kbE,        \* FusionProcessor.knowledge_base.entities (list)
    kbR,        \* FusionProcessor.knowledge_base.relationships (list)
    objE,       \* which entries of kbE are one object: the first index that holds it
    objR,       \* the same for kbR
    pc,         \* position inside merge_analysis / _optimize_graph
    exIds,      \* existing_ids, computed once at the start of a _merge_* loop
    groups,     \* duplicate groups still to be handled by _resolve_conflicts
    lastOp,     \* the step just taken
    argE,       \* backend API: the entity passed (<<e>> or <<>>)
    argR,       \* backend API: the relationship passed (<<r>> or <<>>)
    retE,       \* backend API: the entity returned (<<e>> or <<>>)
    retR,       \* backend API: the relationship returned (<<r>> or <<>>)
    oracle,     \* oracle calls made by the step just taken
    raised,     \* the step just taken raised
    changes,    \* merge_analysis: its dict of the four change counters
    total,      \* history: adds and updates of all fragments of the running call
    twin,       \* a second KnowledgeProcessor, over NetworkXStorage, given the same calls
    web,        \* a WebDocumentLoader: its fields, the locals of _crawl and of process
    eng,        \* a DeepNotesEngine: its data_model and the position of run_pipeline
    llm,        \* a LLMWrapper.generate call: prompts sent, provider requests, outcome
    calls       \* history: whole merge_analysis calls made on the KnowledgeProcessor

vars == <<driver, backend, ents, rels, cEnts, cRels, shA, shM, kbE, kbR, objE, objR, pc,
          exIds, groups, lastOp, argE, argR, retE, retR, oracle, raised,
          changes, total, twin, web, eng, llm, calls>>

\* the loaders, the pipeline engine, the oracle client, the count of calls
aux == <<web, eng, llm, calls>>

----------------------------------------------------------------------------
(* Bounds of the model *)

\* longest knowledge_base list FusionProcessor is driven to
MaxList == 2

----------------------------------------------------------------------------
(* Data model: models/models.py *)

IDs == {"a", "b"}
EntityFields == {"id", "name", "description", "type", "attributes", "metadata"}
EntityRequired == {"id", "name", "type"}
RelFields == {"source", "target", "type", "attributes", "metadata"}
RelRequired == {"source", "target", "type"}

EmptyMap == [k \in {} |-> ""]

\* dict.update(other): other's value wins on every shared key
DictUpdate(m, n) ==
    [k \in (DOMAIN m) \cup (DOMAIN n) |-> IF k \in DOMAIN n THEN n[k] ELSE m[k]]

\* Entity(id=..., name=..., type=..., **optional): unset fields take their defaults
Entity(id, name, type, opt) ==
    [id          |-> id,
     name        |-> name,
     type        |-> type,
     description |-> IF "description" \in DOMAIN opt THEN opt.description ELSE "None",
     attributes  |-> IF "attributes" \in DOMAIN opt THEN opt.attributes ELSE EmptyMap,
     metadata    |-> IF "metadata" \in DOMAIN opt THEN opt.metadata ELSE EmptyMap,
     fset        |-> EntityRequired \cup DOMAIN opt]

\* Relationship(source=..., target=..., type=..., **optional)
Relationship(source, target, type, opt) ==
    [source     |-> source,
     target     |-> target,
     type       |-> type,
     attributes |-> IF "attributes" \in DOMAIN opt THEN opt.attributes ELSE EmptyMap,
     metadata   |-> IF "metadata" \in DOMAIN opt THEN opt.metadata ELSE EmptyMap,
     fset       |-> RelRequired \cup DOMAIN opt]

\* Relationship.id
RelId(r) == r.source \o "__" \o r.type \o "__" \o r.target

\* pydantic equality: field values only, the set of explicitly set fields is not compared
EntityEq(x, y) == \A f \in EntityFields : x[f] = y[f]
RelEq(x, y) == \A f \in RelFields : x[f] = y[f]

\* str.lower() on the names of the model
Lower(s) ==
    CASE s = "Foo" -> "foo"
      [] s = "Bar" -> "bar"
      [] OTHER -> s

\* existing.model_copy(update=new.model_dump(exclude_unset=True)) on an Entity
EntityCopyUpdate(existing, new) ==
    [f \in EntityFields \cup {"fset"} |->
        IF f = "fset" THEN existing.fset \cup new.fset
        ELSE IF f \in new.fset THEN new[f] ELSE existing[f]]

\* existing.model_copy(update=new.model_dump(exclude_unset=True)) on a Relationship
RelCopyUpdate(existing, new) ==
    [f \in RelFields \cup {"fset"} |->
        IF f = "fset" THEN existing.fset \cup new.fset
        ELSE IF f \in new.fset THEN new[f] ELSE existing[f]]

\* d[k] = v on a dict
Put(d, k, v) == [x \in (DOMAIN d) \cup {k} |-> IF x = k THEN v ELSE d[x]]

----------------------------------------------------------------------------
(* Storage backends: storage/graph_storage.py.  Every operator returns the *)
(* new store together with the value returned and whether the call raised. *)

\* model_dump() of a record: every field, set or defaulted
EntityDump(e) == [e EXCEPT !.fset = EntityFields]
RelDump(r) == [r EXCEPT !.fset = RelFields]

\* a node that add_edge created for a missing endpoint: an empty attribute dict
BareNode(id) == [Entity(id, "", "", EmptyMap) EXCEPT !.fset = {}]
IsBare(n) == n.fset = {}

MemoryStorage_merge_entity(E, e) ==
    IF e.id \in DOMAIN E
    THEN LET merged == EntityCopyUpdate(E[e.id], e)
         IN  [ents |-> Put(E, e.id, merged), ret |-> <<merged>>, raised |-> FALSE]
    ELSE [ents |-> Put(E, e.id, e), ret |-> <<e>>, raised |-> FALSE]

MemoryStorage_merge_relationship(E, R, r) ==
    IF RelId(r) \in DOMAIN R
    THEN LET merged == RelCopyUpdate(R[RelId(r)], r)
         IN  [ents |-> E, rels |-> Put(R, RelId(r), merged), ret |-> <<merged>>,
              raised |-> FALSE]
    ELSE [ents |-> E, rels |-> Put(R, RelId(r), r), ret |-> <<r>>, raised |-> FALSE]

\* Entity(**self.graph.nodes[id]) fails validation on a node without attributes
NetworkXStorage_merge_entity(E, e) ==
    IF e.id \in DOMAIN E
    THEN IF IsBare(E[e.id])
         THEN [ents |-> E, ret |-> <<>>, raised |-> TRUE]
         ELSE LET merged == EntityCopyUpdate(E[e.id], e)
              IN  [ents |-> Put(E, e.id, EntityDump(merged)), ret |-> <<merged>>,
                   raised |-> FALSE]
    ELSE [ents |-> Put(E, e.id, EntityDump(e)), ret |-> <<e>>, raised |-> FALSE]

\* self.graph.edges[rel.id] indexes a multigraph edge view by a string: it raises
\* add_edge creates the endpoints that are no nodes yet
NetworkXStorage_merge_relationship(E, R, r) ==
    IF RelId(r) \in DOMAIN R
    THEN [ents |-> E, rels |-> R, ret |-> <<>>, raised |-> TRUE]
    ELSE LET E1 == IF r.source \in DOMAIN E THEN E
                   ELSE Put(E, r.source, BareNode(r.source))
             E2 == IF r.target \in DOMAIN E1 THEN E1
                   ELSE Put(E1, r.target, BareNode(r.target))
         IN  [ents |-> E2, rels |-> Put(R, RelId(r), RelDump(r)), ret |-> <<r>>,
              raised |-> FALSE]

\* MERGE (e:Entity {id: $id}) SET e += $props; the argument is returned
Neo4jStorage_merge_entity(E, e) ==
    IF e.id \in DOMAIN E
    THEN [ents |-> Put(E, e.id, EntityCopyUpdate(E[e.id], e)), ret |-> <<e>>,
          raised |-> FALSE]
    ELSE [ents |-> Put(E, e.id, e), ret |-> <<e>>, raised |-> FALSE]

\* MATCH both endpoints, MERGE the edge by id, SET r += $props; the argument is returned
Neo4jStorage_merge_relationship(E, R, r) ==
    IF r.source \in DOMAIN E /\ r.target \in DOMAIN E
    THEN IF RelId(r) \in DOMAIN R
         THEN [ents |-> E, rels |-> Put(R, RelId(r), RelCopyUpdate(R[RelId(r)], r)),
               ret |-> <<r>>, raised |-> FALSE]
         ELSE [ents |-> E, rels |-> Put(R, RelId(r), r), ret |-> <<r>>, raised |-> FALSE]
    ELSE [ents |-> E, rels |-> R, ret |-> <<r>>, raised |-> FALSE]

\* graph_storage.merge_entity on the configured backend
merge_entity(b, E, e) ==
    CASE b = "memory"   -> MemoryStorage_merge_entity(E, e)
      [] b = "networkx" -> NetworkXStorage_merge_entity(E, e)
      [] b = "neo4j"    -> Neo4jStorage_merge_entity(E, e)

\* graph_storage.merge_relationship on the configured backend
merge_relationship(b, E, R, r) ==
    CASE b = "memory"   -> MemoryStorage_merge_relationship(E, R, r)
      [] b = "networkx" -> NetworkXStorage_merge_relationship(E, R, r)
      [] b = "neo4j"    -> Neo4jStorage_merge_relationship(E, R, r)

\* get_entity: the record a read of the backend yields (<<>> for None)
get_entity(b, E, id) ==
    IF id \notin DOMAIN E THEN [ret |-> <<>>, raised |-> FALSE]
    ELSE IF b = "networkx" /\ IsBare(E[id]) THEN [ret |-> <<>>, raised |-> TRUE]
    ELSE [ret |-> <<E[id]>>, raised |-> FALSE]

\* get_relationship: the record a read of the backend yields (<<>> for None)
get_relationship(b, R, rid) ==
    IF rid \in DOMAIN R THEN <<R[rid]>> ELSE <<>>

\* get_knowledge_graph raises on the networkx backend when a node has no attributes
get_knowledge_graph_raises(b, E) ==
    b = "networkx" /\ \E id \in DOMAIN E : IsBare(E[id])

----------------------------------------------------------------------------
(* Inputs: the proposals the fragment producer sends and the answers of    *)
(* the resolution oracle (llm.generate(...).model_instance).               *)

Attrs(k, v) == [x \in {k} |-> v]

EntityProposals ==
    { Entity("a", "Foo", "X", [attributes |-> Attrs("note", "updated")]),
      Entity("a", "Foo", "X", [metadata |-> Attrs("keep_always", TRUE)]),
      Entity("a", "Bar", "X", [metadata |-> Attrs("keep_always", TRUE)]),
      Entity("b", "foo", "X", EmptyMap) }

RelProposals ==
    { Relationship("a", "b", "part_of", [attributes |-> Attrs("w", "1")]),
      Relationship("a", "b", "part_of", [attributes |-> Attrs("v", "2")]),
      Relationship("a", "z", "part_of", EmptyMap) }

OtherId(id) == IF id = "a" THEN "b" ELSE "a"

\* The oracle is a function of the records it is shown; the model knows three:
\* one that fails, one that answers the union merge with every field set, and
\* one that answers a record under another id with only the required fields
\* set.  <<>> stands for a failure.
OraclePolicies == {"fail", "union", "relabel"}

OracleEntityAnswer(policy, existing, new) ==
    CASE policy = "fail" -> <<>>
      [] policy = "union" ->
           << [EntityDump(new) EXCEPT !.attributes = DictUpdate(existing.attributes, @),
                                      !.metadata = DictUpdate(existing.metadata, @)] >>
      [] policy = "relabel" ->
           << Entity(OtherId(new.id), new.name, new.type, EmptyMap) >>

\* what the oracle may answer for a conflict between two records
OracleEntityAnswers(existing, new) ==
    { OracleEntityAnswer(p, existing, new) : p \in OraclePolicies }

----------------------------------------------------------------------------
(* KnowledgeProcessor: processors/knowledge_processor.py *)

\* self._base_graph = self.graph_storage.get_knowledge_graph(): the memory
\* backend hands out its own objects, the other two build fresh ones
SharedAfterRefresh(b, E) == IF b = "memory" THEN DOMAIN E ELSE {}

\* the cached dict of field f stays the backend's dict across merge_entity(e)
\* only when model_copy copies it over, i.e. e does not set f
SharedAfterMerge(b, E, sh, e, f) ==
    IF e.id \notin DOMAIN E \/ f \in e.fset THEN sh \ {e.id} ELSE sh

\* _update_entity with a store that undoes its earlier merges when the oracle fails
Mutant_update_entity_rolls_back(b, E, C, sA, sM, new, ans) ==
    LET existing == C[new.id] IN
    IF existing.name = new.name /\ existing.type = new.type
    THEN [ents   |-> [id \in DOMAIN E |->
                        IF id # new.id THEN E[id]
                        ELSE [E[id] EXCEPT
                               !.attributes = IF id \in sA
                                              THEN DictUpdate(@, new.attributes) ELSE @,
                               !.metadata   = IF id \in sM
                                              THEN DictUpdate(@, new.metadata) ELSE @]],
          cEnts  |-> Put(C, new.id,
                         [existing EXCEPT
                            !.attributes = DictUpdate(@, new.attributes),
                            !.metadata   = DictUpdate(@, new.metadata)]),
          shA |-> sA, shM |-> sM, oracle |-> 0, raised |-> FALSE, ret |-> <<>>]
    ELSE IF ans = <<>>
    THEN [ents |-> [id \in DOMAIN E \cap DOMAIN C |-> E[id]], cEnts |-> C,
          shA |-> sA, shM |-> sM, oracle |-> 1, raised |-> TRUE, ret |-> <<>>]
    ELSE LET m == merge_entity(b, E, ans[1])
         IN  [ents |-> m.ents, cEnts |-> C,
              shA |-> SharedAfterMerge(b, E, sA, ans[1], "attributes"),
              shM |-> SharedAfterMerge(b, E, sM, ans[1], "metadata"),
              oracle |-> 1, raised |-> m.raised, ret |-> ans]

\* _update_entity(new_entity); ans is the oracle's answer should it be asked
KnowledgeProcessor_update_entity(b, E, C, sA, sM, new, ans) ==
    LET existing == C[new.id] IN
    IF existing.name = new.name /\ existing.type = new.type
    THEN [ents   |-> [id \in DOMAIN E |->
                        IF id # new.id THEN E[id]
                        ELSE [E[id] EXCEPT
                               !.attributes = IF id \in sA
                                              THEN DictUpdate(@, new.attributes) ELSE @,
                               !.metadata   = IF id \in sM
                                              THEN DictUpdate(@, new.metadata) ELSE @]],
          cEnts  |-> Put(C, new.id,
                         [existing EXCEPT
                            !.attributes = DictUpdate(@, new.attributes),
                            !.metadata   = DictUpdate(@, new.metadata)]),
          shA |-> sA, shM |-> sM, oracle |-> 0, raised |-> FALSE, ret |-> <<>>]
    ELSE IF ans = <<>>
    THEN [ents |-> E, cEnts |-> C, shA |-> sA, shM |-> sM, oracle |-> 1,
          raised |-> TRUE, ret |-> <<>>]
    ELSE LET m == merge_entity(b, E, ans[1])
         IN  [ents |-> m.ents, cEnts |-> C,
              shA |-> SharedAfterMerge(b, E, sA, ans[1], "attributes"),
              shM |-> SharedAfterMerge(b, E, sM, ans[1], "metadata"),
              oracle |-> 1, raised |-> m.raised, ret |-> ans]

\* a _validate_relationship that forgets the source
Mutant_validate_target_only(C, r) ==
    r.target \in DOMAIN C

\* a _validate_relationship that forgets the target
Mutant_validate_source_only(C, r) ==
    r.source \in DOMAIN C

\* _validate_relationship
KnowledgeProcessor_validate_relationship(C, r) ==
    r.source \in DOMAIN C /\ r.target \in DOMAIN C

\* _update_relationship(new_relationship); the structural comparison can only
\* differ when two triples share a derived id, and then the oracle's record
\* is given an id, which a Relationship does not accept
KnowledgeProcessor_update_relationship(b, E, R, CR, new) ==
    IF RelId(new) \notin DOMAIN CR
    THEN merge_relationship(b, E, R, new) @@ [oracle |-> 0]
    ELSE LET existing == CR[RelId(new)] IN
         IF existing.source # new.source \/ existing.target # new.target
            \/ existing.type # new.type
         THEN [ents |-> E, rels |-> R, ret |-> <<>>, raised |-> TRUE, oracle |-> 1]
         ELSE merge_relationship(b, E, R, new) @@ [oracle |-> 0]

\* the keys of entity_groups in _resolve_conflicts
GroupKey(e) == <<Lower(e.name), e.type>>

\* a pruning that leaves every cached relationship in place
Mutant_prune_keeps_dangling(C, CR) == [rid \in DOMAIN CR |-> CR[rid]]

\* _prune_orphans, relationships first: the cached relationships that stay
PruneRelationships(C, CR) ==
    [rid \in {x \in DOMAIN CR : CR[x].source \in DOMAIN C /\ CR[x].target \in DOMAIN C}
        |-> CR[rid]]

\* e.metadata.get("keep_always")
KeepAlways(e) == "keep_always" \in DOMAIN e.metadata /\ e.metadata["keep_always"] = TRUE

\* a pruning that keeps connected entities only, whatever their metadata
Mutant_prune_ignores_keep_always(C, valid) ==
    LET connected == {valid[rid].source : rid \in DOMAIN valid}
                     \cup {valid[rid].target : rid \in DOMAIN valid}
    IN  [id \in {x \in DOMAIN C : x \in connected} |-> C[id]]

\* _prune_orphans, entities second: the cached entities that stay
PruneEntities(C, valid) ==
    LET connected == {valid[rid].source : rid \in DOMAIN valid}
                     \cup {valid[rid].target : rid \in DOMAIN valid}
    IN  [id \in {x \in DOMAIN C : x \in connected \/ KeepAlways(C[x])} |-> C[id]]

----------------------------------------------------------------------------
(* Helpers of the state machine *)

store == <<ents, rels>>
cache == <<cEnts, cRels, shA, shM>>
kb    == <<kbE, kbR, objE, objR>>
mode  == <<driver, backend>>

RECURSIVE SetToSeq(_)
SetToSeq(S) ==
    IF S = {} THEN <<>> ELSE LET x == CHOOSE y \in S : TRUE IN <<x>> \o SetToSeq(S \ {x})

Step(op, ae, ar, re, rr, o, x) ==
    /\ lastOp' = op
    /\ argE' = ae
    /\ argR' = ar
    /\ retE' = re
    /\ retR' = rr
    /\ oracle' = o
    /\ raised' = x
    /\ UNCHANGED <<changes, total, twin, aux>>

\* the groups of _resolve_conflicts with more than one member, over a cache
\* that holds one record per id
DuplicateGroups(C) ==
    LET keys == {GroupKey(C[id]) : id \in DOMAIN C}
        big  == {k \in keys : Cardinality({id \in DOMAIN C : GroupKey(C[id]) = k}) > 1}
    IN  SetToSeq({ SetToSeq({C[id] : id \in {x \in DOMAIN C : GroupKey(C[x]) = k}})
                   : k \in big })

----------------------------------------------------------------------------
(* The backend API called directly *)

Storage_merge_entity(e) ==
    /\ driver = "storage"
    /\ LET m == merge_entity(backend, ents, e)
       IN  /\ ents' = m.ents
           /\ Step("merge_entity", <<e>>, <<>>, m.ret, <<>>, 0, m.raised)
    /\ UNCHANGED <<mode, rels, cache, kb, pc, exIds, groups>>

Storage_merge_relationship(r) ==
    /\ driver = "storage"
    /\ LET m == merge_relationship(backend, ents, rels, r)
       IN  /\ ents' = m.ents
           /\ rels' = m.rels
           /\ Step("merge_relationship", <<>>, <<r>>, <<>>, m.ret, 0, m.raised)
    /\ UNCHANGED <<mode, cache, kb, pc, exIds, groups>>

\* MemoryStorage.clear(): both dicts are emptied; the other backends have no
\* such method
Storage_clear ==
    /\ driver = "storage" /\ backend = "memory"
    /\ ents' = EmptyMap /\ rels' = EmptyMap
    /\ Step("clear", <<>>, <<>>, <<>>, <<>>, 0, FALSE)
    /\ UNCHANGED <<mode, cache, kb, pc, exIds, groups>>

----------------------------------------------------------------------------
(* KnowledgeProcessor.merge_analysis, one step of its loops at a time *)

KP_Begin ==
    /\ driver = "kp" /\ pc = "idle"
    /\ pc' = "kp_frag"
    /\ Step("begin", <<>>, <<>>, <<>>, <<>>, 0, FALSE)
    /\ UNCHANGED <<mode, store, cache, kb, exIds, groups>>

\* a result without knowledge_graph is passed over
KP_SkipFragment ==
    /\ driver = "kp" /\ pc = "kp_frag"
    /\ Step("skip", <<>>, <<>>, <<>>, <<>>, 0, FALSE)
    /\ UNCHANGED <<mode, store, cache, kb, pc, exIds, groups>>

\* _merge_entities starts: existing_ids is read off the cache once
KP_Fragment ==
    /\ driver = "kp" /\ pc = "kp_frag"
    /\ pc' = "kp_ents"
    /\ exIds' = DOMAIN cEnts
    /\ Step("fragment", <<>>, <<>>, <<>>, <<>>, 0, FALSE)
    /\ UNCHANGED <<mode, store, cache, kb, groups>>

\* one pass of the loop of _merge_entities
KP_MergeEntity(e, ans) ==
    /\ driver = "kp" /\ pc = "kp_ents"
    /\ IF e.id \in exIds
       THEN LET u == KnowledgeProcessor_update_entity(backend, ents, cEnts, shA, shM, e, ans)
            IN  /\ u.oracle = 0 => ans = <<>>
                /\ ents' = u.ents /\ cEnts' = u.cEnts /\ shA' = u.shA /\ shM' = u.shM
                /\ pc' = IF u.raised THEN "idle" ELSE pc
                /\ Step(IF u.oracle = 0 THEN "update_entity" ELSE "resolve_entity",
                        <<>>, <<>>, <<>>, <<>>, u.oracle, u.raised)
       ELSE LET m == merge_entity(backend, ents, e)
            IN  /\ ans = <<>>
                /\ ents' = m.ents
                /\ shA' = SharedAfterMerge(backend, ents, shA, e, "attributes")
                /\ shM' = SharedAfterMerge(backend, ents, shM, e, "metadata")
                /\ pc' = IF m.raised THEN "idle" ELSE pc
                /\ Step("add_entity", <<>>, <<>>, <<>>, <<>>, 0, m.raised)
                /\ UNCHANGED cEnts
    /\ UNCHANGED <<mode, rels, cRels, kb, exIds, groups>>

\* _merge_entities ends: the cache is fetched again
KP_EndEntities ==
    /\ driver = "kp" /\ pc = "kp_ents"
    /\ cEnts' = ents /\ cRels' = rels
    /\ shA' = SharedAfterRefresh(backend, ents)
    /\ shM' = SharedAfterRefresh(backend, ents)
    /\ pc' = "kp_rels"
    /\ exIds' = DOMAIN rels
    /\ Step("end_entities", <<>>, <<>>, <<>>, <<>>, 0, FALSE)
    /\ UNCHANGED <<mode, store, kb, groups>>

\* one pass of the loop of _merge_relationships
KP_MergeRelationship(r) ==
    /\ driver = "kp" /\ pc = "kp_rels"
    /\ IF RelId(r) \in exIds
       THEN LET u == KnowledgeProcessor_update_relationship(backend, ents, rels, cRels, r)
            IN  /\ ents' = u.ents /\ rels' = u.rels
                /\ pc' = IF u.raised THEN "idle" ELSE pc
                /\ Step("update_relationship", <<>>, <<>>, <<>>, <<>>, u.oracle, u.raised)
       ELSE IF KnowledgeProcessor_validate_relationship(cEnts, r)
       THEN LET m == merge_relationship(backend, ents, rels, r)
            IN  /\ ents' = m.ents /\ rels' = m.rels
                /\ pc' = IF m.raised THEN "idle" ELSE pc
                /\ Step("add_relationship", <<>>, <<>>, <<>>, <<>>, 0, m.raised)
       ELSE /\ Step("drop_relationship", <<>>, <<>>, <<>>, <<>>, 0, FALSE)
            /\ UNCHANGED <<store, pc>>
    /\ UNCHANGED <<mode, cache, kb, exIds, groups>>

\* _merge_relationships ends: the cache is fetched again
KP_EndRelationships ==
    /\ driver = "kp" /\ pc = "kp_rels"
    /\ cEnts' = ents /\ cRels' = rels
    /\ shA' = SharedAfterRefresh(backend, ents)
    /\ shM' = SharedAfterRefresh(backend, ents)
    /\ pc' = "kp_frag"
    /\ Step("end_relationships", <<>>, <<>>, <<>>, <<>>, 0, FALSE)
    /\ UNCHANGED <<mode, store, kb, exIds, groups>>

\* the results are exhausted and sum(changes.values()) is at most the threshold
KP_Return ==
    /\ driver = "kp" /\ pc = "kp_frag"
    /\ pc' = "idle"
    /\ Step("return", <<>>, <<>>, <<>>, <<>>, 0, FALSE)
    /\ UNCHANGED <<mode, store, cache, kb, exIds, groups>>

\* the results are exhausted and sum(changes.values()) exceeds the threshold:
\* _optimize_graph starts with _resolve_conflicts
KP_Optimize ==
    /\ driver = "kp" /\ pc = "kp_frag"
    /\ pc' = "kp_resolve"
    /\ groups' = DuplicateGroups(cEnts)
    /\ Step("optimize", <<>>, <<>>, <<>>, <<>>, 0, FALSE)
    /\ UNCHANGED <<mode, store, cache, kb, exIds>>

RECURSIVE MergeAll(_, _, _)
\* for entity in group: self.graph_storage.merge_entity(entity)
MergeAll(b, E, g) ==
    IF g = <<>> THEN E ELSE MergeAll(b, merge_entity(b, E, Head(g)).ents, Tail(g))

RECURSIVE SharedAfterMergeAll(_, _, _, _, _)
SharedAfterMergeAll(b, E, sh, g, f) ==
    IF g = <<>> THEN sh
    ELSE SharedAfterMergeAll(b, merge_entity(b, E, Head(g)).ents,
                             SharedAfterMerge(b, E, sh, Head(g), f), Tail(g), f)

\* one group of _resolve_conflicts: the oracle's record is asked for and then
\* every member of the group is merged into the backend as it is
KP_ResolveGroup(ok) ==
    /\ driver = "kp" /\ pc = "kp_resolve" /\ groups # <<>>
    /\ IF ok
       THEN /\ ents' = MergeAll(backend, ents, Head(groups))
            /\ shA' = SharedAfterMergeAll(backend, ents, shA, Head(groups), "attributes")
            /\ shM' = SharedAfterMergeAll(backend, ents, shM, Head(groups), "metadata")
            /\ groups' = Tail(groups)
            /\ pc' = pc
       ELSE /\ groups' = <<>>
            /\ pc' = "idle"
            /\ UNCHANGED <<ents, shA, shM>>
    /\ Step("resolve_group", <<>>, <<>>, <<>>, <<>>, 1, ~ok)
    /\ UNCHANGED <<mode, rels, cEnts, cRels, kb, exIds>>

\* a pruning that also deletes from the backend what it drops from the cache
Mutant_KP_Prune_backend ==
    /\ driver = "kp" /\ pc = "kp_resolve" /\ groups = <<>>
    /\ LET valid == PruneRelationships(cEnts, cRels)
       IN  /\ cRels' = valid
           /\ cEnts' = PruneEntities(cEnts, valid)
           /\ shA' = shA \cap DOMAIN PruneEntities(cEnts, valid)
           /\ shM' = shM \cap DOMAIN PruneEntities(cEnts, valid)
           /\ ents' = [id \in DOMAIN ents \cap DOMAIN PruneEntities(cEnts, valid) |-> ents[id]]
           /\ rels' = [rid \in DOMAIN rels \cap DOMAIN valid |-> rels[rid]]
    /\ pc' = "idle"
    /\ Step("prune", <<>>, <<>>, <<>>, <<>>, 0, FALSE)
    /\ UNCHANGED <<mode, kb, exIds, groups>>

\* _prune_orphans on the cached graph, then _compact_storage (no backend has
\* a compact method), then merge_analysis returns
KP_Prune ==
    /\ driver = "kp" /\ pc = "kp_resolve" /\ groups = <<>>
    /\ LET valid == PruneRelationships(cEnts, cRels)
       IN  /\ cRels' = valid
           /\ cEnts' = PruneEntities(cEnts, valid)
           /\ shA' = shA \cap DOMAIN PruneEntities(cEnts, valid)
           /\ shM' = shM \cap DOMAIN PruneEntities(cEnts, valid)
    /\ pc' = "idle"
    /\ Step("prune", <<>>, <<>>, <<>>, <<>>, 0, FALSE)
    /\ UNCHANGED <<mode, store, kb, exIds, groups>>

----------------------------------------------------------------------------
(* FusionProcessor: processors/fusion_processor.py.  Nothing in it reads   *)
(* which fields of a record were set explicitly (it never serialises with  *)
(* exclude_unset), so the records of its knowledge base are kept with      *)
(* every field counted as set.                                             *)

\* the least of a set of list indices, 0 when the set is empty: the place
\* where a scan of the list first finds what it looks for
FirstIndex(S) ==
    IF S = {} THEN 0 ELSE CHOOSE i \in S : \A j \in S : i <= j

\* the first entity of a FusionProcessor list that carries the id
FusionExisting(L, id) == L[FirstIndex({i \in 1..Len(L) : L[i].id = id})]

\* the first relationship of a FusionProcessor list that carries the id
FusionExistingRel(L, rid) == L[FirstIndex({i \in 1..Len(L) : RelId(L[i]) = rid})]

RemoveAt(L, i) == SubSeq(L, 1, i - 1) \o SubSeq(L, i + 1, Len(L))

(* The lists of the knowledge base hold the objects the caller passed: an   *)
(* object may sit at several places of a list, and an update in place is    *)
(* seen at all of them.  O[i] is the first index of the list that holds the *)
(* object at index i.                                                       *)

\* n objects, no two of them the same
Distinct(n) == [i \in 1..n |-> i]

\* the object marks of a list, each again the first index of its object
Canon(O) == [i \in 1..Len(O) |-> FirstIndex({j \in 1..Len(O) : O[j] = O[i]})]

\* list.append(x), x an object the list does not hold yet
AppendFresh(O) == Append(O, Len(O) + 1)

\* the marks of the entries at the indices of keep, in list order
Pick(O, keep) ==
    [k \in 1..Cardinality(keep) |->
        O[CHOOSE i \in keep : Cardinality({j \in keep : j <= i}) = k]]

\* list.remove(x): the first element equal to x goes
ListRemoveEntity(L, x) ==
    RemoveAt(L, FirstIndex({i \in 1..Len(L) : EntityEq(L[i], x)}))

ListRemoveRel(L, x) ==
    RemoveAt(L, FirstIndex({i \in 1..Len(L) : RelEq(L[i], x)}))

EntityIds(L) == {L[i].id : i \in 1..Len(L)}
RelIds(L) == {RelId(L[i]) : i \in 1..Len(L)}

\* _update_entity(new_entity): next(...) raises when no entity has the id
\* the simple merge updates the dicts of the object found, which every list
\* entry that is this object shows; the oracle's record is a new object
FusionProcessor_update_entity(L, O, new, ans) ==
    LET i == FirstIndex({j \in 1..Len(L) : L[j].id = new.id})
    IN  IF i = 0
        THEN [kbE |-> L, objE |-> O, oracle |-> 0, raised |-> TRUE]
        ELSE IF L[i].name = new.name /\ L[i].type = new.type
        THEN [kbE |-> [j \in 1..Len(L) |->
                         IF O[j] = O[i]
                         THEN [L[j] EXCEPT !.attributes = DictUpdate(@, new.attributes),
                                           !.metadata = DictUpdate(@, new.metadata)]
                         ELSE L[j]],
              objE |-> O, oracle |-> 0, raised |-> FALSE]
        ELSE IF ans = <<>>
        THEN [kbE |-> L, objE |-> O, oracle |-> 1, raised |-> TRUE]
        ELSE [kbE |-> Append(ListRemoveEntity(L, L[i]), EntityDump(ans[1])),
              objE |-> AppendFresh(Canon(RemoveAt(O, i))),
              oracle |-> 1, raised |-> FALSE]

\* what the oracle may answer for two relationships in conflict
OracleRelAnswers(existing, new) == { <<>>, <<RelDump(new)>> }

\* _update_relationship(new_relationship)
FusionProcessor_update_relationship(L, O, new, ans) ==
    LET i == FirstIndex({j \in 1..Len(L) : RelId(L[j]) = RelId(new)})
    IN  IF i = 0
        THEN [kbR |-> L, objR |-> O, oracle |-> 0, raised |-> TRUE]
        ELSE IF L[i].source = new.source /\ L[i].target = new.target
                /\ L[i].type = new.type
        THEN [kbR |-> [j \in 1..Len(L) |->
                         IF O[j] = O[i]
                         THEN [L[j] EXCEPT !.attributes = DictUpdate(@, new.attributes),
                                           !.metadata = DictUpdate(@, new.metadata)]
                         ELSE L[j]],
              objR |-> O, oracle |-> 0, raised |-> FALSE]
        ELSE IF ans = <<>>
        THEN [kbR |-> L, objR |-> O, oracle |-> 1, raised |-> TRUE]
        ELSE [kbR |-> Append(ListRemoveRel(L, L[i]), RelDump(ans[1])),
              objR |-> AppendFresh(Canon(RemoveAt(O, i))),
              oracle |-> 1, raised |-> FALSE]

\* _validate_relationship
FusionProcessor_validate_relationship(L, r) ==
    r.source \in EntityIds(L) /\ r.target \in EntityIds(L)

RECURSIVE SelectSeqBy(_, _)
\* the members of list L whose group key is k, in list order
SelectSeqBy(L, k) ==
    IF L = <<>> THEN <<>>
    ELSE (IF GroupKey(Head(L)) = k THEN <<Head(L)>> ELSE <<>>) \o SelectSeqBy(Tail(L), k)

RECURSIVE GroupsInOrder(_, _, _)
\* entity_groups.values() with more than one member, in order of first appearance
GroupsInOrder(L, rest, seen) ==
    IF rest = <<>> THEN <<>>
    ELSE LET k == GroupKey(Head(rest)) IN
         IF k \in seen THEN GroupsInOrder(L, Tail(rest), seen)
         ELSE (IF Len(SelectSeqBy(L, k)) > 1 THEN <<SelectSeqBy(L, k)>> ELSE <<>>)
              \o GroupsInOrder(L, Tail(rest), seen \cup {k})

\* the oracle's answer for a group of duplicates: a failure, the union merge
\* under the last member's name and id, or the first member as it is
OracleGroupAnswer(policy, g) ==
    CASE policy = "fail" -> <<>>
      [] policy = "union" ->
           << [EntityDump(g[Len(g)]) EXCEPT
                  !.attributes = DictUpdate(g[1].attributes, @),
                  !.metadata = DictUpdate(g[1].metadata, @)] >>
      [] policy = "relabel" -> << EntityDump(g[1]) >>

\* what the oracle may answer for a group of duplicates
OracleGroupAnswers(g) == { OracleGroupAnswer(p, g) : p \in OraclePolicies }

RECURSIVE RemoveAll(_, _)
\* for entity in group: self.knowledge_base.entities.remove(entity)
RemoveAll(L, g) ==
    IF g = <<>> THEN L ELSE RemoveAll(ListRemoveEntity(L, Head(g)), Tail(g))

RECURSIVE RemoveAllObj(_, _, _)
\* the object marks of the entries that the removals of RemoveAll leave
RemoveAllObj(L, O, g) ==
    IF g = <<>> THEN Canon(O)
    ELSE RemoveAllObj(ListRemoveEntity(L, Head(g)),
                      RemoveAt(O, FirstIndex({i \in 1..Len(L) : EntityEq(L[i], Head(g))})),
                      Tail(g))

\* _prune_orphans: the relationships that stay
FusionPruneRelationships(L, RL) ==
    LET Valid(r) == r.source \in EntityIds(L) /\ r.target \in EntityIds(L)
    IN  SelectSeq(RL, Valid)

\* _prune_orphans: the entities that stay
FusionPruneEntities(L, valid) ==
    LET connected == {valid[i].source : i \in 1..Len(valid)}
                     \cup {valid[i].target : i \in 1..Len(valid)}
        Stays(e) == e.id \in connected \/ KeepAlways(e)
    IN  SelectSeq(L, Stays)

\* _prune_orphans builds new lists of the objects that stay: their marks
FusionPruneRelObj(L, RL, OR) ==
    Canon(Pick(OR, {i \in 1..Len(RL) :
                      RL[i].source \in EntityIds(L) /\ RL[i].target \in EntityIds(L)}))

FusionPruneObj(L, O, valid) ==
    LET connected == {valid[i].source : i \in 1..Len(valid)}
                     \cup {valid[i].target : i \in 1..Len(valid)}
    IN  Canon(Pick(O, {i \in 1..Len(L) : L[i].id \in connected \/ KeepAlways(L[i])}))

\* the entries of list L that an appended object of value x may already be:
\* those of an id that was not among existing_ids ex when the loop started,
\* appended as they are; 0 stands for an object the list does not hold
SameObjectChoices(L, ids, x, ex) ==
    {0} \cup {k \in 1..Len(L) : L[k] = x /\ ids[k] \notin ex}

\* list.append(x), x being the object at index k of the list or, with k = 0,
\* an object the list does not hold
AppendObject(O, k) == IF k = 0 THEN AppendFresh(O) ELSE Append(O, O[k])

----------------------------------------------------------------------------
(* FusionProcessor.merge_analysis, one step of its loops at a time *)

F_Begin ==
    /\ driver = "fusion" /\ pc = "idle"
    /\ pc' = "f_frag"
    /\ Step("begin", <<>>, <<>>, <<>>, <<>>, 0, FALSE)
    /\ UNCHANGED <<mode, store, cache, kb, exIds, groups>>

\* a result without knowledge_graph is passed over
F_SkipFragment ==
    /\ driver = "fusion" /\ pc = "f_frag"
    /\ Step("skip", <<>>, <<>>, <<>>, <<>>, 0, FALSE)
    /\ UNCHANGED <<mode, store, cache, kb, pc, exIds, groups>>

\* _merge_entities starts: existing_ids is read off the knowledge base once
F_Fragment ==
    /\ driver = "fusion" /\ pc = "f_frag"
    /\ pc' = "f_ents"
    /\ exIds' = EntityIds(kbE)
    /\ Step("fragment", <<>>, <<>>, <<>>, <<>>, 0, FALSE)
    /\ UNCHANGED <<mode, store, cache, kb, groups>>

\* one pass of the loop of _merge_entities; when _update_entity raises, the
\* call ends and existing_ids is gone
F_MergeEntity(e, ans) ==
    /\ driver = "fusion" /\ pc = "f_ents"
    /\ IF e.id \in exIds
       THEN \E u \in {FusionProcessor_update_entity(kbE, objE, e, ans)} :
                /\ u.oracle = 0 => ans = <<>>
                /\ kbE' = u.kbE
                /\ objE' = u.objE
                /\ pc' = IF u.raised THEN "idle" ELSE pc
                /\ exIds' = IF u.raised THEN {} ELSE exIds
                /\ Step(IF u.oracle = 0 THEN "update_entity" ELSE "resolve_entity",
                        <<>>, <<>>, <<>>, <<>>, u.oracle, u.raised)
       ELSE /\ ans = <<>>
            /\ Len(kbE) < MaxList
            /\ kbE' = Append(kbE, EntityDump(e))
            /\ \E k \in SameObjectChoices(kbE, [j \in 1..Len(kbE) |-> kbE[j].id],
                                          EntityDump(e), exIds) :
                  objE' = AppendObject(objE, k)
            /\ pc' = pc
            /\ exIds' = exIds
            /\ Step("add_entity", <<>>, <<>>, <<>>, <<>>, 0, FALSE)
    /\ UNCHANGED <<mode, store, cache, kbR, objR, groups>>

\* _merge_relationships starts: existing_ids is read off the knowledge base once
F_EndEntities ==
    /\ driver = "fusion" /\ pc = "f_ents"
    /\ pc' = "f_rels"
    /\ exIds' = RelIds(kbR)
    /\ Step("end_entities", <<>>, <<>>, <<>>, <<>>, 0, FALSE)
    /\ UNCHANGED <<mode, store, cache, kb, groups>>

\* one pass of the loop of _merge_relationships
F_MergeRelationship(r, ans) ==
    /\ driver = "fusion" /\ pc = "f_rels"
    /\ IF RelId(r) \in exIds
       THEN \E u \in {FusionProcessor_update_relationship(kbR, objR, r, ans)} :
                /\ u.oracle = 0 => ans = <<>>
                /\ kbR' = u.kbR
                /\ objR' = u.objR
                /\ pc' = IF u.raised THEN "idle" ELSE pc
                /\ exIds' = IF u.raised THEN {} ELSE exIds
                /\ Step("update_relationship", <<>>, <<>>, <<>>, <<>>, u.oracle, u.raised)
       ELSE IF FusionProcessor_validate_relationship(kbE, r)
       THEN /\ ans = <<>>
            /\ Len(kbR) < MaxList
            /\ kbR' = Append(kbR, RelDump(r))
            /\ \E k \in SameObjectChoices(kbR, [j \in 1..Len(kbR) |-> RelId(kbR[j])],
                                          RelDump(r), exIds) :
                  objR' = AppendObject(objR, k)
            /\ pc' = pc
            /\ exIds' = exIds
            /\ Step("add_relationship", <<>>, <<>>, <<>>, <<>>, 0, FALSE)
       ELSE /\ ans = <<>>
            /\ Step("drop_relationship", <<>>, <<>>, <<>>, <<>>, 0, FALSE)
            /\ UNCHANGED <<kbR, objR, pc, exIds>>
    /\ UNCHANGED <<mode, store, cache, kbE, objE, groups>>

\* _merge_relationships returns, and its existing_ids is gone
F_EndRelationships ==
    /\ driver = "fusion" /\ pc = "f_rels"
    /\ pc' = "f_frag"
    /\ exIds' = {}
    /\ Step("end_relationships", <<>>, <<>>, <<>>, <<>>, 0, FALSE)
    /\ UNCHANGED <<mode, store, cache, kb, groups>>

\* the results are exhausted: _resolve_conflicts groups the entities
F_Resolve ==
    /\ driver = "fusion" /\ pc = "f_frag"
    /\ pc' = "f_resolve"
    /\ groups' = GroupsInOrder(kbE, kbE, {})
    /\ Step("optimize", <<>>, <<>>, <<>>, <<>>, 0, FALSE)
    /\ UNCHANGED <<mode, store, cache, kb, exIds>>

\* one group of _resolve_conflicts: its members go, the oracle's record comes
F_ResolveGroup(ans) ==
    /\ driver = "fusion" /\ pc = "f_resolve" /\ groups # <<>>
    /\ IF ans # <<>>
       THEN /\ kbE' = Append(RemoveAll(kbE, Head(groups)), EntityDump(ans[1]))
            /\ objE' = AppendFresh(RemoveAllObj(kbE, objE, Head(groups)))
            /\ groups' = Tail(groups)
            /\ pc' = pc
       ELSE /\ groups' = <<>>
            /\ pc' = "idle"
            /\ UNCHANGED <<kbE, objE>>
    /\ Step("resolve_group", <<>>, <<>>, <<>>, <<>>, 1, ans = <<>>)
    /\ UNCHANGED <<mode, store, cache, kbR, objR, exIds>>

\* _prune_orphans, then merge_analysis returns the knowledge base
F_Prune ==
    /\ driver = "fusion" /\ pc = "f_resolve" /\ groups = <<>>
    /\ LET valid == FusionPruneRelationships(kbE, kbR)
       IN  /\ kbR' = valid
           /\ kbE' = FusionPruneEntities(kbE, valid)
           /\ objR' = FusionPruneRelObj(kbE, kbR, objR)
           /\ objE' = FusionPruneObj(kbE, objE, valid)
    /\ pc' = "idle"
    /\ Step("prune", <<>>, <<>>, <<>>, <<>>, 0, FALSE)
    /\ UNCHANGED <<mode, store, cache, exIds, groups>>

\* the answers the oracle may give when entity e is merged into list L
FusionEntityAnswers(L, e) ==
    LET i == FirstIndex({j \in 1..Len(L) : L[j].id = e.id})
    IN  IF i = 0 THEN {<<>>} ELSE OracleEntityAnswers(L[i], e)

\* the answers the oracle may give when relationship r is merged into list L
FusionRelAnswers(L, r) ==
    LET i == FirstIndex({j \in 1..Len(L) : RelId(L[j]) = RelId(r)})
    IN  IF i = 0 THEN {<<>>} ELSE OracleRelAnswers(L[i], r)

NextFusion ==
    \/ F_Begin
    \/ F_SkipFragment
    \/ F_Fragment
    \/ /\ pc = "f_ents"
       /\ \E e \in EntityProposals : \E ans \in FusionEntityAnswers(kbE, e) :
             F_MergeEntity(e, ans)
    \/ F_EndEntities
    \/ /\ pc = "f_rels"
       /\ \E r \in RelProposals : \E ans \in FusionRelAnswers(kbR, r) :
             F_MergeRelationship(r, ans)
    \/ F_EndRelationships
    \/ F_Resolve
    \/ \E ans \in (IF groups # <<>> THEN OracleGroupAnswers(Head(groups)) ELSE {}) :
          F_ResolveGroup(ans)
    \/ F_Prune

NextStorage ==
    \/ \E e \in EntityProposals : Storage_merge_entity(e)
    \/ \E r \in RelProposals : Storage_merge_relationship(r)
    \/ Storage_clear

NextKP ==
    \/ KP_Begin
    \/ KP_SkipFragment
    \/ KP_Fragment
    \/ \E e \in EntityProposals :
         \E ans \in (IF e.id \in DOMAIN cEnts
                     THEN OracleEntityAnswers(cEnts[e.id], e) ELSE {<<>>}) :
            KP_MergeEntity(e, ans)
    \/ KP_EndEntities
    \/ \E r \in RelProposals : KP_MergeRelationship(r)
    \/ KP_EndRelationships
    \/ KP_Return
    \/ KP_Optimize
    \/ \E ok \in BOOLEAN : KP_ResolveGroup(ok)
    \/ KP_Prune

\* no WebDocumentLoader has been constructed yet
WebNone ==
    [pc |-> "none", start |-> <<>>, retries |-> 0, visited |-> {}, queue |-> {},
     batch |-> <<>>, futures |-> {}, work |-> EmptyMap, submits |-> <<>>,
     concurrency |-> 1, urls |-> {}, todo |-> {}, pwork |-> EmptyMap,
     pdone |-> EmptyMap,
     docs |-> {}, okGets |-> {},
     total_chunks |-> 0, raised |-> FALSE]

\* no DeepNotesEngine has been constructed yet
EngNone ==
    [pc |-> "none", max_iterations |-> 0, notes |-> <<>>, iteration_history |-> <<>>,
     iteration |-> 0, executed |-> 0, notes_before |-> 0, history_before |-> 0]

\* no LLMWrapper.generate call has been made yet
LlmNone ==
    [pc |-> "none", response_model |-> FALSE, prompts |-> 0, attempt |-> 0,
     requests |-> 0, correcting |-> FALSE, max_retries |-> 0, last |-> "none",
     result |-> "none"]

Init ==
    /\ \/ driver = "storage" /\ backend \in {"memory", "networkx", "neo4j"}
       \/ driver = "kp" /\ backend \in {"memory", "networkx", "neo4j"}
       \/ driver = "fusion" /\ backend = "none"
       \/ driver \in {"loader", "pipeline", "llm"} /\ backend = "none"
    /\ ents = EmptyMap /\ rels = EmptyMap
    /\ cEnts = EmptyMap /\ cRels = EmptyMap
    /\ shA = {} /\ shM = {}
    /\ kbE = <<>> /\ kbR = <<>>
    /\ objE = <<>> /\ objR = <<>>
    /\ pc = "idle"
    /\ exIds = {}
    /\ groups = <<>>
    /\ lastOp = "init"
    /\ argE = <<>> /\ argR = <<>> /\ retE = <<>> /\ retR = <<>>
    /\ oracle = 0
    /\ raised = FALSE
    /\ changes = [entities_added |-> 0, entities_updated |-> 0,
                  relationships_added |-> 0, relationships_updated |-> 0]
    /\ total = 0
    /\ twin = [ents |-> EmptyMap, rels |-> EmptyMap, cEnts |-> EmptyMap,
               cRels |-> EmptyMap, shA |-> {}, shM |-> {}, raised |-> FALSE]
    /\ web = WebNone
    /\ eng = EngNone
    /\ llm = LlmNone
    /\ calls = 0

Next == NextStorage \/ NextKP \/ NextFusion

\* every driver: the backend API, KnowledgeProcessor on each backend, FusionProcessor
Spec == Init /\ [][Next]_vars

\* the backend API alone
InitStorage == Init /\ driver = "storage"
SpecStorage == InitStorage /\ [][NextStorage]_vars

\* KnowledgeProcessor on each backend
InitKP == Init /\ driver = "kp"
SpecKP == InitKP /\ [][NextKP]_vars

\* FusionProcessor
InitFusion == Init /\ driver = "fusion"
SpecFusion == InitFusion /\ [][NextFusion]_vars

----------------------------------------------------------------------------
(* Properties *)

\* merge_analysis is not running
Idle == pc = "idle"

\* merge_analysis has just returned (it did not raise)
Returned == pc = "idle" /\ lastOp \in {"return", "prune"}

\* C1: after any sequence of merge_analysis calls the graph holds at most one
\* Entity per id: no two places of FusionProcessor's entity list carry the same
\* id, and every record of KnowledgeProcessor's backend and cache is the only
\* one under its id.
C1_OneEntityPerId ==
    Returned =>
       /\ \A i, j \in 1..Len(kbE) : kbE[i].id = kbE[j].id => i = j
       /\ \A k \in DOMAIN ents : ents[k].id = k
       /\ \A k \in DOMAIN cEnts : cEnts[k].id = k

\* C2: after any sequence of merge_analysis calls the graph holds at most one
\* Relationship per derived id source__type__target.
C2_OneRelationshipPerId ==
    Returned =>
       /\ \A i, j \in 1..Len(kbR) : RelId(kbR[i]) = RelId(kbR[j]) => i = j
       /\ \A k \in DOMAIN rels : RelId(rels[k]) = k
       /\ \A k \in DOMAIN cRels : RelId(cRels[k]) = k

\* C3: whenever merge_analysis returns, every Relationship of the graph has
\* its source and its target among the entity ids of that graph
\* (FusionProcessor's knowledge base; KnowledgeProcessor's cached graph and
\* its backend), whatever the oracle answered.
C3_EndpointsPresent ==
    Returned =>
       /\ \A i \in 1..Len(kbR) :
             kbR[i].source \in EntityIds(kbE) /\ kbR[i].target \in EntityIds(kbE)
       /\ \A k \in DOMAIN cRels :
             cRels[k].source \in DOMAIN cEnts /\ cRels[k].target \in DOMAIN cEnts
       /\ \A k \in DOMAIN rels :
             rels[k].source \in DOMAIN ents /\ rels[k].target \in DOMAIN ents

\* merge_analysis has returned a graph that holds a relationship
C3_Witness ==
    Returned /\ (Len(kbR) > 0 \/ DOMAIN cRels # {})

\* the step merges proposal r on one of the engines
MergesRelationship(r) ==
    \/ KP_MergeRelationship(r)
    \/ /\ pc = "f_rels"
       /\ \E ans \in FusionRelAnswers(kbR, r) : F_MergeRelationship(r, ans)

\* the entity ids of the engine's current graph: get_knowledge_graph() of a
\* KnowledgeProcessor hands out the cached graph, a FusionProcessor holds its
\* knowledge base
GraphEntityIds == IF driver = "fusion" THEN EntityIds(kbE) ELSE DOMAIN cEnts

\* the relationship ids of the engine's current graph
GraphRelIds == IF driver = "fusion" THEN RelIds(kbR) ELSE DOMAIN cRels

\* the number of relationships of the engine's current graph
GraphRelCount == IF driver = "fusion" THEN Len(kbR) ELSE Cardinality(DOMAIN cRels)

\* the step makes a relationship appear: in the backend of a
\* KnowledgeProcessor, in the knowledge base of a FusionProcessor
RelationshipAppears ==
    IF driver = "fusion"
    THEN (GraphRelIds' \ GraphRelIds # {}) \/ (GraphRelCount' > GraphRelCount)
    ELSE DOMAIN rels' \ DOMAIN rels # {}

C4_Step ==
    driver \in {"kp", "fusion"} =>
       /\ \A r \in RelProposals :
             /\ pc \in {"kp_rels", "f_rels"}
             /\ ~(r.source \in GraphEntityIds /\ r.target \in GraphEntityIds)
             /\ MergesRelationship(r)
             => /\ GraphRelIds' = GraphRelIds /\ GraphRelCount' = GraphRelCount
                /\ DOMAIN rels' = DOMAIN rels
       /\ RelationshipAppears
          => \E r \in RelProposals :
                /\ r.source \in GraphEntityIds /\ r.target \in GraphEntityIds
                /\ MergesRelationship(r)
                /\ IF driver = "fusion"
                   THEN GraphRelIds' = GraphRelIds \cup {RelId(r)}
                   ELSE DOMAIN rels' = DOMAIN rels \cup {RelId(r)}
       /\ DOMAIN cRels' \subseteq DOMAIN rels'

\* C4: merging a proposed relationship whose source or target is no entity id
\* of the current graph leaves the set of relationships and its size as they
\* were, and a relationship enters the graph only in a step that merges a
\* proposal of it whose endpoints are both in the graph: no consolidation
\* pass and no merge of something else makes it appear.  A KnowledgeProcessor
\* writes to its backend and re-fetches its cached graph from it, so there
\* the backend gains no relationship either and the cached graph holds none
\* that the backend lacks.
C4_MissingEndpointNeverAdded == [][C4_Step]_vars

\* a KnowledgeProcessor whose backend holds a relationship, entered by an
\* earlier merge, has just dropped a proposal with a missing endpoint
C4_Witness ==
    lastOp = "drop_relationship" /\ driver = "kp" /\ DOMAIN rels # {}

\* merge_entity(e) stored and returned what the contract of the backends asks
ShallowEntityMerge(before, after, e, ret) ==
    /\ e.id \in DOMAIN after
    /\ after[e.id].id = e.id
    /\ IF e.id \in DOMAIN before
       THEN \A f \in EntityFields :
               after[e.id][f] = IF f \in e.fset THEN e[f] ELSE before[e.id][f]
       ELSE EntityEq(after[e.id], e)
    /\ \A k \in DOMAIN before \ {e.id} : k \in DOMAIN after /\ after[k] = before[k]
    /\ ret # <<>> /\ EntityEq(ret[1], after[e.id])

C5_Step ==
    (driver = "storage" /\ lastOp' = "merge_entity") =>
        /\ ~raised'
        /\ ShallowEntityMerge(ents, ents', argE'[1], retE')

\* C5: on every backend merge_entity(e) stores e as it is when no entity has
\* e.id; when one has, the stored entity afterwards has e's value for every
\* field set on e and the previous value for every other field, keeps its id,
\* and the value returned equals the record now stored.
C5_MergeEntityShallow == [][C5_Step]_vars

C6_Step ==
    (driver = "storage" /\ lastOp' = "merge_relationship"
       /\ RelId(argR'[1]) \in DOMAIN rels) =>
        LET r == argR'[1]
            rid == RelId(r)
        IN  /\ ~raised'
            /\ DOMAIN rels' = DOMAIN rels
            /\ get_relationship(backend, rels', rid) # <<>>
            /\ \A f \in RelFields :
                  get_relationship(backend, rels', rid)[1][f]
                     = IF f \in r.fset THEN r[f] ELSE rels[rid][f]

\* C6: on every backend merge_relationship(r), for a relationship whose
\* derived id is already stored, does not raise, leaves one relationship under
\* that id, and merges field by field as merge_entity does; get_relationship
\* then returns the merged record.
C6_MergeExistingRelationship == [][C6_Step]_vars

----------------------------------------------------------------------------
(* merge_analysis of one fragment that carries one entity and no           *)
(* relationship, as one function of the engine's state and the oracle      *)

\* KnowledgeProcessor: _merge_entities([e]), _merge_relationships([]); a
\* single change is below the optimisation threshold
KP_merge_single(b, E, R, C, CR, sA, sM, e, policy) ==
    LET u == IF e.id \in DOMAIN C
             THEN KnowledgeProcessor_update_entity(b, E, C, sA, sM, e,
                      OracleEntityAnswer(policy, C[e.id], e))
             ELSE [ents |-> merge_entity(b, E, e).ents, cEnts |-> C,
                   raised |-> merge_entity(b, E, e).raised]
    IN  IF u.raised
        THEN [ents |-> u.ents, rels |-> R, cEnts |-> u.cEnts, cRels |-> CR,
              shA |-> sA, shM |-> sM, raised |-> TRUE]
        ELSE [ents |-> u.ents, rels |-> R, cEnts |-> u.ents, cRels |-> R,
              shA |-> SharedAfterRefresh(b, u.ents), shM |-> SharedAfterRefresh(b, u.ents),
              raised |-> FALSE]

RECURSIVE FusionResolveAll(_, _, _, _)
\* _resolve_conflicts over the groups gs
FusionResolveAll(L, O, gs, policy) ==
    IF gs = <<>> THEN [kbE |-> L, objE |-> O, raised |-> FALSE]
    ELSE LET ans == OracleGroupAnswer(policy, Head(gs)) IN
         IF ans = <<>> THEN [kbE |-> L, objE |-> O, raised |-> TRUE]
         ELSE FusionResolveAll(Append(RemoveAll(L, Head(gs)), EntityDump(ans[1])),
                               AppendFresh(RemoveAllObj(L, O, Head(gs))),
                               Tail(gs), policy)

\* _prune_orphans after _resolve_conflicts has left g
Fusion_prune_state(g, RL, OR) ==
    IF g.raised
    THEN [kbE |-> g.kbE, kbR |-> RL, objE |-> g.objE, objR |-> OR, raised |-> TRUE]
    ELSE [kbE |-> FusionPruneEntities(g.kbE, FusionPruneRelationships(g.kbE, RL)),
          kbR |-> FusionPruneRelationships(g.kbE, RL),
          objE |-> FusionPruneObj(g.kbE, g.objE, FusionPruneRelationships(g.kbE, RL)),
          objR |-> FusionPruneRelObj(g.kbE, RL, OR),
          raised |-> FALSE]

\* merge_analysis after its entity loop has left u: no relationship to
\* merge, _resolve_conflicts, _prune_orphans
Fusion_resolve_and_prune(u, RL, OR, policy) ==
    IF u.raised
    THEN [kbE |-> u.kbE, kbR |-> RL, objE |-> u.objE, objR |-> OR, raised |-> TRUE]
    ELSE Fusion_prune_state(
             FusionResolveAll(u.kbE, u.objE, GroupsInOrder(u.kbE, u.kbE, {}), policy),
             RL, OR)

\* FusionProcessor: _merge_entities([e]), _merge_relationships([]),
\* _resolve_conflicts, _prune_orphans; e is an object the list does not hold
Fusion_merge_single(L, RL, O, OR, e, policy) ==
    Fusion_resolve_and_prune(
        IF e.id \in EntityIds(L)
        THEN FusionProcessor_update_entity(L, O, e,
                 OracleEntityAnswer(policy, FusionExisting(L, e.id), e))
        ELSE [kbE |-> Append(L, EntityDump(e)), objE |-> AppendFresh(O),
              raised |-> FALSE],
        RL, OR, policy)

\* the graph after merging e once equals the graph after merging it twice
KP_Idempotent(e, policy) ==
    LET s1 == KP_merge_single(backend, ents, rels, cEnts, cRels, shA, shM, e, policy)
        s2 == KP_merge_single(backend, s1.ents, s1.rels, s1.cEnts, s1.cRels,
                              s1.shA, s1.shM, e, policy)
    IN  /\ s2.ents = s1.ents /\ s2.rels = s1.rels
        /\ s2.cEnts = s1.cEnts /\ s2.cRels = s1.cRels

Fusion_Idempotent(e, policy) ==
    LET s1 == Fusion_merge_single(kbE, kbR, objE, objR, e, policy)
        s2 == Fusion_merge_single(s1.kbE, s1.kbR, s1.objE, s1.objR, e, policy)
    IN  s2.kbE = s1.kbE /\ s2.kbR = s1.kbR

Storage_Idempotent(e) ==
    LET m1 == merge_entity(backend, ents, e)
        m2 == merge_entity(backend, m1.ents, e)
    IN  ~m1.raised => ~m2.raised /\ m2.ents = m1.ents

\* C7: merging the same entity twice with the same content leaves the graph
\* after the second merge equal to the graph after the first, for
\* merge_entity on every backend and for merge_analysis of the same
\* single-entity fragment on both engines (the oracle answering both calls
\* with the union of the two records it is shown).
C7_MergeTwiceIdempotent ==
    /\ driver = "storage" => \A e \in EntityProposals : Storage_Idempotent(e)
    /\ (driver = "kp" /\ Idle) =>
          \A e \in EntityProposals : KP_Idempotent(e, "union")
    /\ (driver = "fusion" /\ Idle /\ Len(kbE) < MaxList) =>
          \A e \in EntityProposals : Fusion_Idempotent(e, "union")

----------------------------------------------------------------------------
(* the per-entity and per-relationship decisions of the two engines *)

\* the proposal meets a stored entity of the same id, name and type
SameNameType(x, e) == x.id = e.id /\ x.name = e.name /\ x.type = e.type

UnionOf(x, e, after) ==
    /\ after.attributes = DictUpdate(x.attributes, e.attributes)
    /\ after.metadata = DictUpdate(x.metadata, e.metadata)

C8_Step ==
    \A e \in EntityProposals :
       /\ ( /\ KP_MergeEntity(e, <<>>)
            /\ e.id \in exIds /\ e.id \in DOMAIN cEnts /\ e.id \in DOMAIN ents
            /\ EntityEq(ents[e.id], cEnts[e.id])
            /\ SameNameType(cEnts[e.id], e) )
          => /\ oracle' = 0 /\ ~raised'
             /\ e.id \in DOMAIN ents'
             /\ UnionOf(ents[e.id], e, ents'[e.id])
       /\ ( /\ F_MergeEntity(e, <<>>)
            /\ e.id \in exIds /\ e.id \in EntityIds(kbE)
            /\ SameNameType(FusionExisting(kbE, e.id), e) )
          => /\ oracle' = 0 /\ ~raised'
             /\ e.id \in EntityIds(kbE')
             /\ UnionOf(FusionExisting(kbE, e.id), e, FusionExisting(kbE', e.id))

\* C8: when a proposed entity meets a stored entity of the same id, name and
\* type (the id being one the engine read as existing), the entity stored afterwards (in the backend for KnowledgeProcessor,
\* in the knowledge base for FusionProcessor) has attributes and metadata
\* equal to the union of both maps, the proposed value winning, and the
\* oracle is not called.
C8_SameNameTypeUnion == [][C8_Step]_vars

C9_Step ==
    \A r \in RelProposals :
       /\ ( /\ KP_MergeRelationship(r)
            /\ RelId(r) \in exIds /\ RelId(r) \in DOMAIN rels )
          => /\ oracle' = 0 /\ ~raised'
             /\ DOMAIN rels' = DOMAIN rels
             /\ UnionOf(rels[RelId(r)], r, rels'[RelId(r)])
       /\ \A ans \in FusionRelAnswers(kbR, r) :
          ( /\ F_MergeRelationship(r, ans)
            /\ RelId(r) \in exIds /\ RelId(r) \in RelIds(kbR) )
          => /\ oracle' = 0 /\ ~raised'
             /\ Len(kbR') = Len(kbR)
             /\ UnionOf(FusionExistingRel(kbR, RelId(r)), r,
                        FusionExistingRel(kbR', RelId(r)))

\* C9: merging a proposed relationship whose derived id is already in the
\* graph leaves the number of relationships unchanged, calls no oracle, and
\* leaves the stored relationship with attributes and metadata equal to the
\* union of the existing and the proposed maps.
C9_ExistingRelationshipUnion == [][C9_Step]_vars

C10_Step ==
    \A e \in EntityProposals :
       /\ ( /\ e.id \in exIds /\ e.id \in DOMAIN cEnts /\ e.id \in DOMAIN ents
            /\ EntityEq(ents[e.id], cEnts[e.id])
            /\ ~SameNameType(cEnts[e.id], e) )
          => \A ans \in OracleEntityAnswers(cEnts[e.id], e) :
                KP_MergeEntity(e, ans) =>
                   /\ oracle' = 1
                   /\ (ans # <<>> /\ ~raised') =>
                         /\ Cardinality(DOMAIN ents') = Cardinality(DOMAIN ents)
                         /\ e.id \in DOMAIN ents'
                         /\ EntityEq(ents'[e.id], ans[1])
       /\ ( /\ e.id \in exIds /\ e.id \in EntityIds(kbE)
            /\ ~SameNameType(FusionExisting(kbE, e.id), e) )
          => \A ans \in FusionEntityAnswers(kbE, e) :
                F_MergeEntity(e, ans) =>
                   /\ oracle' = 1
                   /\ (ans # <<>> /\ ~raised') =>
                         /\ Len(kbE') = Len(kbE)
                         /\ e.id \in EntityIds(kbE')
                         /\ \E i \in 1..Len(kbE') : EntityEq(kbE'[i], ans[1])

\* C10: when a proposed entity meets a stored entity of the same id (one the
\* engine read as existing) whose name or type differs, the oracle is called exactly once, and when it
\* answers, the number of entities is unchanged and the entity stored under
\* the proposed id is the oracle's merged record.
C10_ConflictReplacedByOracleRecord == [][C10_Step]_vars

----------------------------------------------------------------------------
(* find_duplicate_entities of the three backends.  A group is given by the *)
(* ids of its members; the stores hold one record per id.                  *)

\* MemoryStorage.find_duplicate_entities: name_map keyed by entity.name.lower()
MemoryStorage_find_duplicate_entities(E) ==
    LET named == {id \in DOMAIN E : E[id].name # ""}
        keys  == {Lower(E[id].name) : id \in named}
        all   == {{id \in named : Lower(E[id].name) = k} : k \in keys}
    IN  [ret |-> {g \in all : Cardinality(g) > 1}, raised |-> FALSE]

\* NetworkXStorage.find_duplicate_entities: get_entity of every node, name_map
\* keyed by entity.name
NetworkXStorage_find_duplicate_entities(E) ==
    IF \E id \in DOMAIN E : IsBare(E[id])
    THEN [ret |-> {}, raised |-> TRUE]
    ELSE LET named == {id \in DOMAIN E : E[id].name # ""}
             keys  == {E[id].name : id \in named}
             all   == {{id \in named : E[id].name = k} : k \in keys}
         IN  [ret |-> {g \in all : Cardinality(g) > 1}, raised |-> FALSE]

\* Neo4jStorage.find_duplicate_entities: WITH e.name AS name, collect(e) AS group
Neo4jStorage_find_duplicate_entities(E) ==
    LET keys == {E[id].name : id \in DOMAIN E}
        all  == {{id \in DOMAIN E : E[id].name = k} : k \in keys}
    IN  [ret |-> {g \in all : Cardinality(g) > 1}, raised |-> FALSE]

\* graph_storage.find_duplicate_entities on the configured backend
find_duplicate_entities(b, E) ==
    CASE b = "memory"   -> MemoryStorage_find_duplicate_entities(E)
      [] b = "networkx" -> NetworkXStorage_find_duplicate_entities(E)
      [] b = "neo4j"    -> Neo4jStorage_find_duplicate_entities(E)

\* entities sent to the backend API when duplicates are looked for: those of
\* the fragments and one that shares a name with them under another type
FindProposals ==
    EntityProposals \cup { Entity("b", "foo", "Y", EmptyMap) }

\* the returned list of groups is kept in groups, each group a list of records
Storage_find_duplicate_entities ==
    /\ driver = "storage"
    /\ LET f == find_duplicate_entities(backend, ents)
       IN  /\ groups' = SetToSeq({SetToSeq({ents[id] : id \in g}) : g \in f.ret})
           /\ Step("find_duplicate_entities", <<>>, <<>>, <<>>, <<>>, 0, f.raised)
    /\ UNCHANGED <<mode, store, cache, kb, pc, exIds>>

NextFind ==
    \/ \E e \in FindProposals : Storage_merge_entity(e)
    \/ \E r \in RelProposals : Storage_merge_relationship(r)
    \/ Storage_find_duplicate_entities
    \/ Storage_clear

\* the backend API with its duplicate query
SpecFind == InitStorage /\ [][NextFind]_vars

\* the ids of the groups last returned
ReturnedGroups ==
    {{groups[i][j].id : j \in 1..Len(groups[i])} : i \in 1..Len(groups)}

\* the groups of more than one stored entity under one (lower-cased name, type)
ExpectedGroups ==
    LET keys == {GroupKey(ents[id]) : id \in DOMAIN ents}
        all  == {{id \in DOMAIN ents : GroupKey(ents[id]) = k} : k \in keys}
    IN  {g \in all : Cardinality(g) > 1}

\* C11: on every backend find_duplicate_entities returns exactly the groups of
\* stored entities that share the same (lower-cased name, type) pair and have
\* more than one member (over a store in which every node is an entity that
\* merge_entity stored).
C11_DuplicateGroupsByNameAndType ==
    (lastOp = "find_duplicate_entities" /\ \A id \in DOMAIN ents : ~IsBare(ents[id]))
       => ~raised /\ ReturnedGroups = ExpectedGroups

----------------------------------------------------------------------------
(* the consolidation pass: _resolve_conflicts, then _prune_orphans *)

\* the number of entities of the engine's current graph
GraphEntityCount == IF driver = "fusion" THEN Len(kbE) ELSE Cardinality(DOMAIN cEnts)

C12_Step ==
    (pc = "kp_resolve" \/ pc = "f_resolve") /\ groups # <<>> =>
       LET g == Head(groups) IN
       /\ KP_ResolveGroup(TRUE) =>
             /\ GraphEntityCount' = GraphEntityCount - (Len(g) - 1)
             /\ Cardinality({id \in DOMAIN ents' : GroupKey(ents'[id]) = GroupKey(g[1])}) = 1
       /\ \A ans \in OracleGroupAnswers(g) \ {<<>>} :
             F_ResolveGroup(ans) =>
                /\ GraphEntityCount' = GraphEntityCount - (Len(g) - 1)
                /\ \E i \in 1..Len(kbE') : EntityEq(kbE'[i], ans[1])
                /\ \A j \in 1..Len(g), i \in 1..Len(kbE') :
                      EntityEq(kbE'[i], g[j]) => EntityEq(g[j], ans[1])

\* C12: when the oracle answers for a group of more than one entity under one
\* (lower-cased name, type), the group is left in the graph as exactly one
\* entity, the oracle's record; its other members are gone and the number of
\* entities drops by the size of the group minus one.
C12_GroupCollapsesToOne == [][C12_Step]_vars

\* the entity is the source or the target of one of the relationships RS
Connected(id, RS) == \E r \in RS : r.source = id \/ r.target = id

C13_Step ==
    /\ KP_Prune =>
          LET surviving == {cRels'[rid] : rid \in DOMAIN cRels'} IN
          /\ \A id \in DOMAIN cEnts \cup DOMAIN cEnts' :
                id \in DOMAIN cEnts' <=>
                   /\ id \in DOMAIN cEnts
                   /\ Connected(id, surviving) \/ KeepAlways(cEnts[id])
          /\ \A id \in DOMAIN cEnts' : cEnts'[id] = cEnts[id]
    /\ F_Prune =>
          LET surviving == {kbR'[i] : i \in 1..Len(kbR')}
              Stays(e) == Connected(e.id, surviving) \/ KeepAlways(e)
          IN  kbE' = SelectSeq(kbE, Stays)

\* C13: after orphan pruning an entity is in the engine's graph if and only if
\* it was there before and it is the source or target of a surviving
\* relationship or its metadata has keep_always; the entities that stay are
\* unchanged.
C13_PruneKeepsConnectedOrPinned == [][C13_Step]_vars

\* a pruning has removed an entity that had no relationship and no keep_always
\* and has kept one that has keep_always and no relationship
C13_Witness ==
    /\ driver = "kp" /\ lastOp = "prune"
    /\ DOMAIN cRels = {}
    /\ \E id \in DOMAIN ents \ DOMAIN cEnts : ~KeepAlways(ents[id])
    /\ \E id \in DOMAIN cEnts : KeepAlways(cEnts[id])

C14_Step ==
    KP_Prune =>
       /\ \A id \in DOMAIN cEnts \ DOMAIN cEnts' : id \notin DOMAIN ents'
       /\ \A rid \in DOMAIN cRels \ DOMAIN cRels' : rid \notin DOMAIN rels'

\* C14: an entity or relationship that a consolidation pass of
\* KnowledgeProcessor has pruned is destroyed: it is absent from the backend's
\* graph (from which every later merge_analysis call reads the engine's graph
\* again).
C14_PrunedIsDestroyed == [][C14_Step]_vars

\* the cached graph of KnowledgeProcessor holds the records of its backend
CacheMatchesBackend ==
    /\ DOMAIN cEnts = DOMAIN ents
    /\ \A id \in DOMAIN cEnts : EntityEq(cEnts[id], ents[id])
    /\ DOMAIN cRels = DOMAIN rels
    /\ \A rid \in DOMAIN cRels : RelEq(cRels[rid], rels[rid])

\* C15: after each fragment is processed and whenever merge_analysis returns
\* normally, the graph cached by KnowledgeProcessor has the same entities and
\* relationships as the backend's graph, also after a consolidation pass.
C15_CacheCoherent ==
    (driver = "kp" /\ (Returned \/ (lastOp = "end_relationships" /\ ~raised)))
       => CacheMatchesBackend

\* C16: every merge_analysis call that returns has run the consolidation pass
\* after its last fragment: its last step before returning is the orphan
\* pruning that ends the pass, also for an empty fragment list.
C16_ConsolidationAlwaysRuns ==
    (driver \in {"kp", "fusion"} /\ Returned) => lastOp = "prune"

----------------------------------------------------------------------------
(* KnowledgeProcessor.merge_analysis as its change counters see it: what a *)
(* fragment does to the graph is left out, what it reports is kept.        *)

\* if sum(changes.values()) > 100
Threshold == 100

\* the largest running total of one call that is followed
MaxTotal == 210

\* what one _merge_* loop may report as added or as updated
Counts == {0, 1, 50, 101}

\* sum(changes.values())
ChangesSum(c) ==
    c.entities_added + c.entities_updated
       + c.relationships_added + c.relationships_updated

\* merge_analysis starts: the four counters are 0
KPC_Begin ==
    /\ driver = "kp" /\ pc = "idle"
    /\ pc' = "kpc_frag"
    /\ changes' = [entities_added |-> 0, entities_updated |-> 0,
                   relationships_added |-> 0, relationships_updated |-> 0]
    /\ total' = 0
    /\ lastOp' = "begin"
    /\ raised' = FALSE
    /\ UNCHANGED <<mode, store, cache, kb, exIds, groups, argE, argR, retE, retR,
                   oracle, twin, aux>>

\* a result without knowledge_graph is passed over
KPC_SkipFragment ==
    /\ driver = "kp" /\ pc = "kpc_frag"
    /\ lastOp' = "skip"
    /\ UNCHANGED <<mode, store, cache, kb, pc, exIds, groups, argE, argR, retE, retR,
                   oracle, raised, changes, total, twin, aux>>

\* one fragment: the counters are assigned what its two loops return
KPC_Fragment(ea, eu, ra, ru) ==
    /\ driver = "kp" /\ pc = "kpc_frag"
    /\ total + ea + eu + ra + ru <= MaxTotal
    /\ changes' = [entities_added |-> ea, entities_updated |-> eu,
                   relationships_added |-> ra, relationships_updated |-> ru]
    /\ total' = total + ea + eu + ra + ru
    /\ lastOp' = "end_relationships"
    /\ UNCHANGED <<mode, store, cache, kb, pc, exIds, groups, argE, argR, retE, retR,
                   oracle, raised, twin, aux>>

\* one fragment in which a loop raises (the oracle fails, or the backend):
\* _merge_entities raises and no counter is assigned, or _merge_relationships
\* raises after the two entity counters were assigned; the exception leaves
\* merge_analysis
KPC_FragmentRaises(inEntities, ea, eu) ==
    /\ driver = "kp" /\ pc = "kpc_frag"
    /\ total + ea + eu <= MaxTotal
    /\ changes' = IF inEntities THEN changes
                  ELSE [changes EXCEPT !.entities_added = ea, !.entities_updated = eu]
    /\ total' = IF inEntities THEN total ELSE total + ea + eu
    /\ pc' = "idle"
    /\ raised' = TRUE
    /\ lastOp' = "fragment_raise"
    /\ UNCHANGED <<mode, store, cache, kb, exIds, groups, argE, argR, retE, retR,
                   oracle, twin, aux>>

\* the results are exhausted and the sum does not exceed the threshold
KPC_Return ==
    /\ driver = "kp" /\ pc = "kpc_frag"
    /\ ~(ChangesSum(changes) > Threshold)
    /\ pc' = "idle"
    /\ lastOp' = "return"
    /\ UNCHANGED <<mode, store, cache, kb, exIds, groups, argE, argR, retE, retR,
                   oracle, raised, changes, total, twin, aux>>

\* the results are exhausted and the sum exceeds the threshold: _optimize_graph
\* runs, then merge_analysis returns (ok); or the oracle fails on a group of
\* duplicates in _resolve_conflicts and the exception leaves merge_analysis
KPC_Optimize(ok) ==
    /\ driver = "kp" /\ pc = "kpc_frag"
    /\ ChangesSum(changes) > Threshold
    /\ pc' = "idle"
    /\ lastOp' = IF ok THEN "prune" ELSE "resolve_group"
    /\ raised' = ~ok
    /\ UNCHANGED <<mode, store, cache, kb, exIds, groups, argE, argR, retE, retR,
                   oracle, changes, total, twin, aux>>

NextCount ==
    \/ KPC_Begin
    \/ KPC_SkipFragment
    \/ \E ea, eu, ra, ru \in Counts : KPC_Fragment(ea, eu, ra, ru)
    \/ \E inEntities \in BOOLEAN, ea, eu \in Counts : KPC_FragmentRaises(inEntities, ea, eu)
    \/ KPC_Return
    \/ \E ok \in BOOLEAN : KPC_Optimize(ok)

\* KnowledgeProcessor.merge_analysis and its counters
SpecCount == InitKP /\ [][NextCount]_vars

\* C17: if the running total of entities added, entities updated,
\* relationships added and relationships updated over all fragments of one
\* merge_analysis call exceeds the threshold, a consolidation pass has run
\* when the call returns.
C17_ThresholdOnRunningTotal ==
    (driver = "kp" /\ pc = "idle" /\ lastOp \in {"return", "prune"} /\ total > Threshold)
       => lastOp = "prune"

----------------------------------------------------------------------------
(* two KnowledgeProcessors, one over MemoryStorage and one over            *)
(* NetworkXStorage, given the same merge_analysis calls and the same       *)
(* oracle; every call carries one fragment of one entity                   *)

Subst_merge_analysis(e, policy) ==
    /\ driver = "kp" /\ backend = "memory" /\ pc = "idle"
    /\ LET m == KP_merge_single("memory", ents, rels, cEnts, cRels, shA, shM, e, policy)
           n == KP_merge_single("networkx", twin.ents, twin.rels, twin.cEnts,
                                twin.cRels, twin.shA, twin.shM, e, policy)
       IN  /\ ents' = m.ents /\ rels' = m.rels
           /\ cEnts' = m.cEnts /\ cRels' = m.cRels
           /\ shA' = m.shA /\ shM' = m.shM
           /\ raised' = m.raised
           /\ twin' = n
           /\ lastOp' = IF m.raised \/ n.raised THEN "subst_raise" ELSE "subst_return"
    /\ UNCHANGED <<mode, kb, pc, exIds, groups, argE, argR, retE, retR, oracle,
                   changes, total, aux>>

NextSubst ==
    \E e \in EntityProposals, policy \in OraclePolicies : Subst_merge_analysis(e, policy)

InitSubst == InitKP /\ backend = "memory"

\* the same calls on the in-memory and on the locally persisted backend
SpecSubst == InitSubst /\ [][NextSubst]_vars

\* C18: for the same fragment sequence and the same oracle, KnowledgeProcessor
\* over MemoryStorage and over NetworkXStorage have graphs with the same
\* entities (field by field, attributes and metadata included) and the same
\* relationships after every merge_analysis call.
C18_BackendsSubstitutable ==
    lastOp = "subst_return" =>
       /\ DOMAIN ents = DOMAIN twin.ents
       /\ \A id \in DOMAIN ents : EntityEq(ents[id], twin.ents[id])
       /\ DOMAIN rels = DOMAIN twin.rels
       /\ \A rid \in DOMAIN rels : RelEq(rels[rid], twin.rels[rid])

----------------------------------------------------------------------------
(* merge_analysis of one fragment that carries a list of entities and no   *)
(* relationship, as one function, and the same call made twice             *)

RECURSIVE KP_merge_entities_loop(_, _, _, _, _)
\* the loop of KnowledgeProcessor._merge_entities over es, existing_ids being ex
KP_merge_entities_loop(b, st, es, ex, policy) ==
    IF es = <<>> \/ st.raised THEN st
    ELSE LET e == Head(es)
             u == IF e.id \in ex
                  THEN KnowledgeProcessor_update_entity(b, st.ents, st.cEnts, st.shA,
                           st.shM, e, OracleEntityAnswer(policy, st.cEnts[e.id], e))
                  ELSE [ents |-> merge_entity(b, st.ents, e).ents, cEnts |-> st.cEnts,
                        shA |-> SharedAfterMerge(b, st.ents, st.shA, e, "attributes"),
                        shM |-> SharedAfterMerge(b, st.ents, st.shM, e, "metadata"),
                        raised |-> merge_entity(b, st.ents, e).raised]
         IN  KP_merge_entities_loop(b, u, Tail(es), ex, policy)

\* self._base_graph = self.graph_storage.get_knowledge_graph() on the state s
KP_refresh(b, s) ==
    IF get_knowledge_graph_raises(b, s.ents)
    THEN [s EXCEPT !.raised = TRUE]
    ELSE [s EXCEPT !.cEnts = s.ents, !.cRels = s.rels,
                   !.shA = SharedAfterRefresh(b, s.ents),
                   !.shM = SharedAfterRefresh(b, s.ents)]

\* the trailing lines of _merge_entities and of _merge_relationships: a loop
\* that raised is left at once, otherwise the cached graph is fetched again
KP_loop_end(b, s) == IF s.raised THEN s ELSE KP_refresh(b, s)

\* the engine's state when the loop of _merge_entities has left u
KP_entities_state(u, R, CR) ==
    [ents |-> u.ents, rels |-> R, cEnts |-> u.cEnts, cRels |-> CR,
     shA |-> u.shA, shM |-> u.shM, raised |-> u.raised]

\* the engine's state when the loop of _merge_relationships has left u
KP_relationships_state(u, C, CR, sA, sM) ==
    [ents |-> u.ents, rels |-> u.rels, cEnts |-> C, cRels |-> CR,
     shA |-> sA, shM |-> sM, raised |-> u.raised]

\* a _merge_entities that leaves the cached graph as it was
Mutant_KP_merge_entities_no_refresh(b, E, R, C, CR, sA, sM, es, policy) ==
    KP_entities_state(
        KP_merge_entities_loop(b,
            [ents |-> E, cEnts |-> C, shA |-> sA, shM |-> sM, raised |-> FALSE],
            es, DOMAIN C, policy), R, CR)

\* KnowledgeProcessor._merge_entities(es): existing_ids is read off the
\* cached graph, the loop runs and, unless it raised, the cached graph is
\* fetched again
KP_merge_entities(b, E, R, C, CR, sA, sM, es, policy) ==
    KP_loop_end(b, KP_entities_state(
        KP_merge_entities_loop(b,
            [ents |-> E, cEnts |-> C, shA |-> sA, shM |-> sM, raised |-> FALSE],
            es, DOMAIN C, policy), R, CR))

RECURSIVE KP_merge_relationships_loop(_, _, _, _, _, _)
\* the loop of KnowledgeProcessor._merge_relationships over rs, existing_ids
\* being ex and the cached graph C, CR
KP_merge_relationships_loop(b, st, C, CR, rs, ex) ==
    IF rs = <<>> \/ st.raised THEN st
    ELSE LET r == Head(rs)
             u == IF RelId(r) \in ex
                  THEN KnowledgeProcessor_update_relationship(b, st.ents, st.rels, CR, r)
                  ELSE IF KnowledgeProcessor_validate_relationship(C, r)
                  THEN merge_relationship(b, st.ents, st.rels, r)
                  ELSE st
         IN  KP_merge_relationships_loop(b, [ents |-> u.ents, rels |-> u.rels,
                                             raised |-> u.raised], C, CR, Tail(rs), ex)

\* KnowledgeProcessor._merge_relationships(rs): existing_ids is read off the
\* cached graph, the loop runs and, unless it raised, the cached graph is
\* fetched again
KP_merge_relationships(b, E, R, C, CR, sA, sM, rs) ==
    KP_loop_end(b, KP_relationships_state(
        KP_merge_relationships_loop(b, [ents |-> E, rels |-> R, raised |-> FALSE],
                                    C, CR, rs, DOMAIN CR), C, CR, sA, sM))

\* merge_analysis goes on to _merge_relationships(rs) unless _merge_entities,
\* which left s1, raised
KP_then_relationships(b, s1, rs) ==
    IF s1.raised THEN s1
    ELSE KP_merge_relationships(b, s1.ents, s1.rels, s1.cEnts, s1.cRels,
                                s1.shA, s1.shM, rs)

\* KnowledgeProcessor.merge_analysis([fragment of es and rs]), the changes
\* staying below the threshold: _merge_entities, then _merge_relationships
KP_merge_analysis(b, E, R, C, CR, sA, sM, es, rs, policy) ==
    KP_then_relationships(b, KP_merge_entities(b, E, R, C, CR, sA, sM, es, policy), rs)

\* KnowledgeProcessor.merge_analysis([fragment of es]) with no relationship
KP_merge_fragment(b, E, R, C, CR, sA, sM, es, policy) ==
    KP_merge_analysis(b, E, R, C, CR, sA, sM, es, <<>>, policy)

\* the list entry that the appended e is, when the equal entries of the
\* fragment are one object (same); 0 when e is an object of its own
SameObjectIndex(L, e, ex, same) ==
    IF same
    THEN FirstIndex(SameObjectChoices(L, [j \in 1..Len(L) |-> L[j].id],
                                      EntityDump(e), ex) \ {0})
    ELSE 0

RECURSIVE Fusion_merge_entities(_, _, _, _, _)
\* the loop of FusionProcessor._merge_entities over es, existing_ids being ex
Fusion_merge_entities(st, es, ex, policy, same) ==
    IF es = <<>> \/ st.raised THEN st
    ELSE LET e == Head(es)
             u == IF e.id \in ex
                  THEN FusionProcessor_update_entity(st.kbE, st.objE, e,
                           IF e.id \in EntityIds(st.kbE)
                           THEN OracleEntityAnswer(policy, FusionExisting(st.kbE, e.id), e)
                           ELSE <<>>)
                  ELSE [kbE |-> Append(st.kbE, EntityDump(e)),
                        objE |-> AppendObject(st.objE,
                                              SameObjectIndex(st.kbE, e, ex, same)),
                        raised |-> FALSE]
         IN  Fusion_merge_entities(u, Tail(es), ex, policy, same)

\* FusionProcessor.merge_analysis([fragment of es]): the loop,
\* _resolve_conflicts, _prune_orphans
Fusion_merge_fragment(L, RL, O, OR, es, policy, same) ==
    Fusion_resolve_and_prune(
        Fusion_merge_entities([kbE |-> L, objE |-> O, raised |-> FALSE], es,
                              EntityIds(L), policy, same),
        RL, OR, policy)

\* the fragments of the repeated calls: one or two entities
EntityLists ==
    {<<e>> : e \in EntityProposals} \cup {<<e, f>> : e, f \in EntityProposals}

\* KnowledgeProcessor.merge_analysis([fragment of es]) is called; twin keeps
\* what calling it once more with the same list would leave
Twice_KP(es, policy) ==
    /\ driver = "kp" /\ pc = "idle"
    /\ \E s1 \in {KP_merge_fragment(backend, ents, rels, cEnts, cRels, shA, shM, es, policy)} :
       \E s2 \in {KP_merge_fragment(backend, s1.ents, s1.rels, s1.cEnts, s1.cRels,
                                     s1.shA, s1.shM, es, policy)} :
           /\ ents' = s1.ents /\ rels' = s1.rels
           /\ cEnts' = s1.cEnts /\ cRels' = s1.cRels
           /\ shA' = s1.shA /\ shM' = s1.shM
           /\ raised' = s1.raised
           /\ twin' = s2
           /\ lastOp' = IF s1.raised THEN "twice_raise" ELSE "twice_return"
    /\ UNCHANGED <<mode, kb, pc, exIds, groups, argE, argR, retE, retR, oracle,
                   changes, total, aux>>

\* the same for FusionProcessor.merge_analysis; same tells whether the equal
\* entries of the fragment are one object
Twice_Fusion(es, policy, same) ==
    /\ driver = "fusion" /\ pc = "idle"
    /\ Len(kbE) + Len(es) <= MaxList
    /\ \E s1 \in {Fusion_merge_fragment(kbE, kbR, objE, objR, es, policy, same)} :
       \E s2 \in {Fusion_merge_fragment(s1.kbE, s1.kbR, s1.objE, s1.objR, es,
                                         policy, same)} :
           /\ kbE' = s1.kbE /\ kbR' = s1.kbR
           /\ objE' = s1.objE /\ objR' = s1.objR
           /\ raised' = s1.raised
           /\ twin' = s2
           /\ lastOp' = IF s1.raised THEN "twice_raise" ELSE "twice_return"
    /\ UNCHANGED <<mode, store, cache, pc, exIds, groups, argE, argR, retE, retR,
                   oracle, changes, total, aux>>

NextTwice ==
    \/ \E es \in EntityLists, policy \in OraclePolicies : Twice_KP(es, policy)
    \/ \E es \in EntityLists, policy \in OraclePolicies, same \in BOOLEAN :
          Twice_Fusion(es, policy, same)

InitTwice == Init /\ driver \in {"kp", "fusion"}

\* the engines under repeated calls
SpecTwice == InitTwice /\ [][NextTwice]_vars

\* C19: when a merge_analysis call has returned, invoking it once more with the
\* same fragment list and the same oracle, if it returns, leaves the graph as
\* it is: the same entity ids and relationship ids with the same field values,
\* none of them twice.
C19_ReinvocationConverges ==
    (lastOp = "twice_return" /\ ~twin.raised) =>
       /\ driver = "kp" =>
             /\ DOMAIN twin.ents = DOMAIN ents
             /\ \A id \in DOMAIN ents : EntityEq(twin.ents[id], ents[id])
             /\ twin.rels = rels
       /\ driver = "fusion" =>
             /\ twin.kbE = kbE /\ twin.kbR = kbR
             /\ \A i, j \in 1..Len(kbE) : kbE[i].id = kbE[j].id => i = j

----------------------------------------------------------------------------
(* C20: a failing oracle in the entity loop of merge_analysis *)

\* the oracle is asked about new: the record the engine holds under new.id
\* differs from it in name or type
EntityConflict(existing, new) ==
    ~(existing.name = new.name /\ existing.type = new.type)

\* the step of _merge_entities in which the oracle raises on e
KP_OracleRaises(e) ==
    /\ pc = "kp_ents"
    /\ e.id \in exIds
    /\ e.id \in DOMAIN cEnts
    /\ EntityConflict(cEnts[e.id], e)
    /\ KP_MergeEntity(e, <<>>)

F_OracleRaises(e) ==
    /\ pc = "f_ents"
    /\ e.id \in exIds
    /\ e.id \in EntityIds(kbE)
    /\ EntityConflict(kbE[FirstIndex({j \in 1..Len(kbE) : kbE[j].id = e.id})], e)
    /\ F_MergeEntity(e, <<>>)

C20_Step ==
    \A e \in EntityProposals :
       /\ KP_OracleRaises(e) =>
             /\ raised' /\ pc' = "idle"
             /\ ents' = ents /\ rels' = rels
       /\ F_OracleRaises(e) =>
             /\ raised' /\ pc' = "idle"
             /\ kbE' = kbE /\ kbR' = kbR

\* C20: when the oracle raises while resolving a conflicting entity, the call
\* of merge_analysis ends with the error, and the entities and relationships
\* merged before the failing one are all still in the graph: nothing is
\* rolled back.
C20_OracleFailurePropagatesNoRollback == [][C20_Step]_vars

\* the oracle has raised in a call that had already merged an entity the cache
\* does not know yet, over a graph that holds a relationship
C20_Witness ==
    /\ driver = "kp" /\ pc = "idle"
    /\ lastOp = "resolve_entity" /\ oracle = 1 /\ raised
    /\ \A id \in DOMAIN ents : ~IsBare(ents[id])
    /\ \E id \in DOMAIN ents : id \notin DOMAIN cEnts
    /\ DOMAIN rels # {}

----------------------------------------------------------------------------
(* C21: a failing oracle in the duplicate groups of a consolidation pass *)

\* the step of _resolve_conflicts in which the oracle raises on a group
OracleRaisesOnGroup ==
    /\ pc \in {"kp_resolve", "f_resolve"}
    /\ groups # <<>>
    /\ lastOp' = "resolve_group"
    /\ raised'

\* C21: when the oracle fails for one duplicate group of a consolidation
\* pass, only that group is given up: the pass goes on with the remaining
\* groups and then with orphan pruning.
C21_Step ==
    OracleRaisesOnGroup => /\ pc' = pc
                           /\ groups' = Tail(groups)

C21_GroupFailureIsolated == [][C21_Step]_vars

----------------------------------------------------------------------------
(* WebDocumentLoader: loaders/web_document_loader.py.  A URL is the        *)
(* sequence of its pieces, so that str.startswith is the prefix test and   *)
(* the cut at '#' and '?' is a cut of the sequence.                        *)

\* the variables of the graph engines, which the other components leave alone
engines == <<mode, store, cache, kb, pc, exIds, groups, lastOp, argE, argR,
             retE, retR, oracle, raised, changes, total, twin, calls>>

\* most retries a loader is configured with (options["retries"])
MaxRetries == 2

\* most threads a loader's pools are configured with (options["concurrency"])
MaxConcurrency == 2

\* most chunks the splitter makes of the text of a page
MaxChunks == 1

\* config.connection["url_pattern"]
UrlPattern == <<"d">>

P1 == <<"d", "1">>
P2 == <<"d", "2">>
P3 == <<"d", "3">>
X1 == <<"x", "1">>

\* the site: the hrefs of the page at a URL, already joined with the page's
\* URL (urljoin), in document order
Hrefs(u) ==
    CASE u = P1 -> << P2, X1, <<"d", "1", "#", "top">> >>
      [] u = P2 -> << <<"d", "3", "?", "q">>, P1 >>
      [] u = P3 -> << P2, X1, <<"d", "3", "?", "q", "#", "f">> >>
      [] u = X1 -> << P3 >>
      [] OTHER  -> << >>

\* config.connection["start_urls"]
StartLists == { <<P1>>, <<X1>>, <<P1, P2>>, <<X1, P3>> }

\* s.split(sep)[0]: s up to the first sep
UpTo(s, sep) ==
    LET at == {i \in 1..Len(s) : s[i] = sep}
    IN  IF at = {} THEN s
        ELSE SubSeq(s, 1, (CHOOSE i \in at : \A j \in at : i <= j) - 1)

\* absolute_url.split('#')[0].split('?')[0]
CleanUrl(u) == UpTo(UpTo(u, "#"), "?")

\* a _is_valid_url that lets every URL through
Mutant_is_valid_url_any(url, pattern) == TRUE

\* _is_valid_url: url.startswith(url_pattern)
is_valid_url(url, pattern) ==
    /\ Len(url) >= Len(pattern)
    /\ SubSeq(url, 1, Len(pattern)) = pattern

\* what one client.get may come to
GetOutcomes == {"200", "404", "503", "RequestError", "InvalidURL"}

\* a client.get whose 404 is taken for a page
Mutant_get_accepts_client_errors(o) ==
    CASE o \in {"200", "404"} -> "return"
      [] o \in {"503", "RequestError"} -> "caught"
      [] OTHER -> "raise"

\* one pass of the loop of _fetch_url: 200 is returned; a 5xx is raised as
\* HTTPStatusError and caught, as is a RequestError; any other status falls
\* through to the next attempt; any other exception leaves the function
GetStep(o) ==
    CASE o = "200" -> "return"
      [] o \in {"503", "RequestError"} -> "caught"
      [] o = "404" -> "next"
      [] OTHER -> "raise"

\* one pass of `for attempt in range(self.retries + 1)` of _fetch_url, the
\* GET of the pass coming to o: the response is returned, the exception
\* leaves the function, the loop goes on, or it ends and None is returned
fetch_url(attempt, retries, o) ==
    LET step == GetStep(o)
    IN  IF step = "return" THEN "response"
        ELSE IF step = "raise" THEN "raise"
        ELSE IF attempt + 1 < retries + 1 THEN "again"
        ELSE "None"

\* the orders in which list(url_queue) may hand out a set
Orders(S) ==
    {f \in [1..Cardinality(S) -> S] : \A i, j \in 1..Cardinality(S) : f[i] = f[j] => i = j}

Range(f) == {f[i] : i \in DOMAIN f}

RECURSIVE SumChunks(_)
\* sum(len(doc.chunks) for doc in processed_docs)
SumChunks(D) ==
    IF D = {} THEN 0
    ELSE LET d == CHOOSE x \in D : TRUE IN d.chunks + SumChunks(D \ {d})

\* what _extract_main_content and the splitter make of a page: no text, or
\* text in so many chunks, which may be none
Contents ==
    {[text |-> FALSE, chunks |-> 0]} \cup {[text |-> TRUE, chunks |-> c] : c \in 0..MaxChunks}

\* what a GET answered with o carries: only a response with status 200 is
\* read for its text
ResponseContents(o) ==
    IF o = "200" THEN Contents ELSE {[text |-> FALSE, chunks |-> 0]}

\* __init__(config)
Web_Construct(start, retries, concurrency) ==
    /\ driver = "loader" /\ web.pc = "none"
    /\ web' = [WebNone EXCEPT !.pc = "idle", !.start = start, !.retries = retries,
                              !.concurrency = concurrency]
    /\ UNCHANGED <<engines, eng, llm>>

\* process() starts and calls _crawl(start_urls): url_queue = set(start_urls)
Web_Process ==
    /\ driver = "loader" /\ web.pc = "idle"
    /\ web' = [web EXCEPT !.pc = "loop", !.queue = Range(web.start)]
    /\ UNCHANGED <<engines, eng, llm>>

\* while url_queue: batch = list(url_queue); url_queue.clear()
Crawl_Batch(order) ==
    /\ web.pc = "loop" /\ web.queue # {}
    /\ web' = [web EXCEPT !.pc = "submit", !.batch = order, !.queue = {}]
    /\ UNCHANGED <<engines, eng, llm>>

\* the main thread of _crawl stands before executor.submit: the URL at the
\* head of the batch is in visited_urls, and no call was submitted for it
CrawlMarked ==
    /\ web.pc = "submit" /\ web.batch # <<>>
    /\ Head(web.batch) \in web.visited
    /\ Head(web.batch) \notin Range(web.submits)

\* for url in batch: a URL not yet visited is added to visited_urls under
\* the lock, one that is visited is passed over
Crawl_Visit ==
    /\ web.pc = "submit" /\ web.batch # <<>>
    /\ ~CrawlMarked
    /\ LET url == Head(web.batch)
       IN  IF url \notin web.visited
           THEN web' = [web EXCEPT !.visited = @ \cup {url}]
           ELSE web' = [web EXCEPT !.batch = Tail(@)]
    /\ UNCHANGED <<engines, eng, llm>>

\* the lock is released; futures[executor.submit(self._process_url, url)] = url
Crawl_Submit ==
    /\ CrawlMarked
    /\ LET url == Head(web.batch)
       IN  web' = [web EXCEPT !.batch = Tail(@),
                              !.futures = @ \cup {url},
                              !.work = Put(@, url, [state |-> "queued", attempt |-> 0,
                                                    gets |-> 0, left |-> <<>>,
                                                    new |-> <<>>]),
                              !.submits = Append(@, url)]
    /\ UNCHANGED <<engines, eng, llm>>

\* the batch is handed out: for future in as_completed(futures)
Crawl_Wait ==
    /\ web.pc = "submit" /\ web.batch = <<>>
    /\ web' = [web EXCEPT !.pc = "collect"]
    /\ UNCHANGED <<engines, eng, llm>>

\* the submitted calls of _process_url that a thread of the pool is running:
\* taken up and not returned
CrawlRunning ==
    {u \in DOMAIN web.work : web.work[u].state \in {"fetch", "links"}}

\* the submitted calls no thread has taken up, and the one the pool takes up
\* next: ThreadPoolExecutor hands its work queue out in order of submission
CrawlQueued ==
    {u \in DOMAIN web.work : web.work[u].state = "queued"}

CrawlNext(url) ==
    /\ url \in CrawlQueued
    /\ Cardinality(CrawlRunning) < web.concurrency
    /\ \A i, j \in 1..Len(web.submits) :
          (web.submits[j] = url /\ web.submits[i] \in CrawlQueued) => j <= i

\* a thread of the pool takes the call _process_url(url) up and, in
\* _fetch_url, makes its first GET; other threads run while it waits for the
\* answer
Worker_Take(url) ==
    /\ CrawlNext(url)
    /\ web' = [web EXCEPT !.work[url].state = "fetch"]
    /\ UNCHANGED <<engines, eng, llm>>

\* a worker in _process_url, inside _fetch_url: the GET of one pass of the
\* loop is answered.  With the response the links of the page are gone
\* through; with None or an exception _process_url returns []
Worker_Get(url, o) ==
    /\ url \in DOMAIN web.work /\ web.work[url].state = "fetch"
    /\ LET w == web.work[url]
           f == fetch_url(w.attempt, web.retries, o)
           page == f = "response" /\ Hrefs(url) # <<>>
       IN  web' = [web EXCEPT
                     !.okGets = IF o = "200" THEN @ \cup {url} ELSE @,
                     !.work = Put(@, url,
                                  [state |-> IF f = "again" THEN "fetch"
                                             ELSE IF page THEN "links" ELSE "done",
                                   attempt |-> IF f = "again" THEN w.attempt + 1
                                               ELSE w.attempt,
                                   gets |-> w.gets + 1,
                                   left |-> IF page THEN Hrefs(url) ELSE <<>>,
                                   new |-> <<>>])]
    /\ UNCHANGED <<engines, eng, llm>>

\* a worker in _process_url: the next link of the page, its visited test
\* made under the lock; after the last link the worker returns new_urls
Worker_Link(url) ==
    /\ url \in DOMAIN web.work /\ web.work[url].state = "links"
    /\ LET w == web.work[url]
           clean_url == CleanUrl(Head(w.left))
           take == is_valid_url(clean_url, UrlPattern) /\ clean_url \notin web.visited
       IN  web' = [web EXCEPT
                     !.work = Put(@, url,
                                  [state |-> IF Tail(w.left) = <<>> THEN "done" ELSE "links",
                                   attempt |-> w.attempt, gets |-> w.gets,
                                   left |-> Tail(w.left),
                                   new |-> IF take THEN Append(w.new, clean_url) ELSE w.new])]
    /\ UNCHANGED <<engines, eng, llm>>

\* a finished future is taken: url_queue.update(new_urls)
Crawl_Collect(url) ==
    /\ web.pc = "collect" /\ url \in web.futures
    /\ web.work[url].state = "done"
    /\ web' = [web EXCEPT
                  !.futures = @ \ {url},
                  !.queue = @ \cup Range(web.work[url].new),
                  !.work = [u \in DOMAIN @ \ {url} |-> @[u]]]
    /\ UNCHANGED <<engines, eng, llm>>

\* every future of the round is taken: back to the test of the while loop
Crawl_Loop ==
    /\ web.pc = "collect" /\ web.futures = {}
    /\ web' = [web EXCEPT !.pc = "loop"]
    /\ UNCHANGED <<engines, eng, llm>>

\* url_queue is empty: the pool is shut down, and with it goes its queue of
\* submitted calls; return list(self.visited_urls)
Crawl_Return ==
    /\ web.pc = "loop" /\ web.queue = {}
    /\ web' = [web EXCEPT !.pc = "crawled", !.urls = web.visited, !.todo = web.visited,
                          !.submits = <<>>]
    /\ UNCHANGED <<engines, eng, llm>>

\* a thread of the pool takes the call process_single_url(url) up (at most
\* max_workers = concurrency calls run at a time; the calls were submitted
\* in the order of list(visited_urls), which is any) and, in _fetch_url,
\* makes its first GET
Proc_Take(url) ==
    /\ web.pc = "crawled"
    /\ url \in web.todo /\ Cardinality(DOMAIN web.pwork) < web.concurrency
    /\ web' = [web EXCEPT !.todo = @ \ {url},
                          !.pwork = Put(@, url, [attempt |-> 0, gets |-> 0])]
    /\ UNCHANGED <<engines, eng, llm>>

\* process_single_url(url), inside _fetch_url: the GET of one pass of the
\* loop is answered.  With the response and some text the call returns a
\* document; with None, no text or an exception it returns None.  The pool
\* thread is free at once, the result waits in the finished future
Proc_Get(url, o, content) ==
    /\ web.pc = "crawled"
    /\ url \in DOMAIN web.pwork
    /\ content \in ResponseContents(o)
    /\ LET w == web.pwork[url]
           f == fetch_url(w.attempt, web.retries, o)
           doc == f = "response" /\ content.text
       IN  web' = [web EXCEPT
                     !.okGets = IF o = "200" THEN @ \cup {url} ELSE @,
                     !.pwork = IF f = "again"
                               THEN Put(@, url, [attempt |-> w.attempt + 1,
                                                 gets |-> w.gets + 1])
                               ELSE [u \in DOMAIN @ \ {url} |-> @[u]],
                     !.pdone = IF f = "again" THEN @
                               ELSE Put(@, url, IF doc
                                                THEN <<[url |-> url,
                                                        chunks |-> content.chunks]>>
                                                ELSE <<>>)]
    /\ UNCHANGED <<engines, eng, llm>>

\* for future in as_completed(futures): the main thread of process takes
\* the result of a finished call and appends it when it is a document
Proc_Collect(url) ==
    /\ web.pc = "crawled"
    /\ url \in DOMAIN web.pdone
    /\ web' = [web EXCEPT !.pdone = [u \in DOMAIN @ \ {url} |-> @[u]],
                          !.docs = @ \cup Range(web.pdone[url])]
    /\ UNCHANGED <<engines, eng, llm>>

\* process returns DocumentLoadedData
Proc_Return ==
    /\ web.pc = "crawled" /\ web.todo = {} /\ web.pwork = EmptyMap
    /\ web.pdone = EmptyMap
    /\ web' = [web EXCEPT !.pc = "returned", !.total_chunks = SumChunks(web.docs)]
    /\ UNCHANGED <<engines, eng, llm>>

Urls == {P1, P2, P3, X1}

NextWeb ==
    \/ \E start \in StartLists, retries \in 0..MaxRetries, concurrency \in 1..MaxConcurrency :
          Web_Construct(start, retries, concurrency)
    \/ Web_Process
    \/ \E order \in Orders(web.queue) : Crawl_Batch(order)
    \/ Crawl_Visit
    \/ Crawl_Submit
    \/ Crawl_Wait
    \/ \E url \in Urls : Worker_Take(url)
    \/ \E url \in Urls, o \in GetOutcomes : Worker_Get(url, o)
    \/ \E url \in Urls : Worker_Link(url)
    \/ \E url \in Urls : Crawl_Collect(url)
    \/ Crawl_Loop
    \/ Crawl_Return
    \/ \E url \in Urls : Proc_Take(url)
    \/ \E url \in Urls : Proc_Collect(url)
    \/ \E url \in Urls, o \in GetOutcomes, content \in Contents : Proc_Get(url, o, content)
    \/ Proc_Return

InitWeb == Init /\ driver = "loader"

\* a WebDocumentLoader is constructed and process() is called
SpecWeb == InitWeb /\ [][NextWeb]_vars

CrawlFetchEnds(u) ==
    /\ u \in DOMAIN web.work /\ web.work[u].state = "fetch"
    /\ u \in DOMAIN web'.work /\ web'.work[u].state # "fetch"

\* the call process made for u ends in this step
ProcessCallEnds(u) ==
    /\ u \in DOMAIN web.pwork
    /\ u \notin DOMAIN web'.pwork

\* the documents of finished calls that process has not appended yet
WaitingDocs == UNION {Range(web.pdone[u]) : u \in DOMAIN web.pdone}

\* the requests of a call stay within retries + 1; a page is read and a
\* document made only of a URL a GET answered with 200
C23_State ==
    /\ \A u \in DOMAIN web.work :
          /\ web.work[u].gets <= web.retries + 1
          /\ web.work[u].state = "links" => u \in web.okGets
    /\ \A u \in DOMAIN web.pwork : web.pwork[u].gets <= web.retries + 1
    /\ \A d \in web.docs \cup WaitingDocs : d.url \in web.okGets
    /\ web.pc = "returned" =>
          /\ ~web.raised
          /\ web.total_chunks = SumChunks(web.docs)

\* the step that ends a _fetch_url call comes with its last request; when
\* no GET for the URL was answered with 200 the call gives None: no links
\* are read, no document is made
C23_Step ==
    \A u \in Urls :
       /\ CrawlFetchEnds(u) =>
             /\ web'.work[u].gets <= web.retries + 1
             /\ (u \notin web'.okGets)
                   => (web'.work[u].state = "done" /\ web'.work[u].left = <<>>)
       /\ ProcessCallEnds(u) =>
             /\ web.pwork[u].gets + 1 <= web.retries + 1
             /\ u \in DOMAIN web'.pdone
             /\ (u \notin web'.okGets)
                   => (web'.pdone[u] = <<>> /\ web'.docs = web.docs)

----------------------------------------------------------------------------
(* DeepNotesEngine.run_pipeline: main.py.  A note is kept as the set of    *)
(* words of its content, which is all _calculate_similarity reads of it.   *)

\* most iterations an engine is configured with (config.max_iterations)
MaxIterations == 3

\* most notes the data model is driven to, over several runs
MaxNotes == 4

\* the notes the generator may hand back: without content, and with 9, 10 and
\* 11 words of which the shorter are part of the longer
NoteContents == { {}, 1..9, 1..10, 1..11 }

\* _calculate_similarity(note1, note2) > 0.9: 0.0 when either text is empty,
\* else the Jaccard index of the two word sets
SimilarityAbove90(note1, note2) ==
    IF note1 = {} \/ note2 = {} THEN FALSE
    ELSE 10 * Cardinality(note1 \cap note2) > 9 * Cardinality(note1 \cup note2)

\* _check_convergence(analysis) over data_model.notes
check_convergence(notes) ==
    IF Len(notes) < 2 THEN FALSE
    ELSE SimilarityAbove90(notes[Len(notes) - 1], notes[Len(notes)])

\* an _update_data_model that files the notes twice
Mutant_update_data_model_twice(e, new_notes, iteration) ==
    [e EXCEPT !.notes = Append(Append(@, new_notes), new_notes),
              !.iteration_history =
                  Append(@, [iteration |-> iteration, notes_version |-> Len(e.notes) + 1])]

\* _update_data_model(new_notes, analysis, iteration)
update_data_model(e, new_notes, iteration) ==
    [e EXCEPT !.notes = Append(@, new_notes),
              !.iteration_history =
                  Append(@, [iteration |-> iteration, notes_version |-> Len(e.notes)])]

\* __init__(config_path)
Eng_Construct(max_iterations) ==
    /\ driver = "pipeline" /\ eng.pc = "none"
    /\ eng' = [EngNone EXCEPT !.pc = "idle", !.max_iterations = max_iterations]
    /\ UNCHANGED <<engines, web, llm>>

\* run_pipeline() is called: _collect_data, then the loop is entered or,
\* with range(0), passed over
Eng_Run ==
    /\ eng.pc \in {"idle", "returned", "raised"}
    /\ eng' = [eng EXCEPT !.pc = IF eng.max_iterations > 0 THEN "loop" ELSE "report",
                          !.iteration = 0, !.executed = 0,
                          !.notes_before = Len(eng.notes),
                          !.history_before = Len(eng.iteration_history)]
    /\ UNCHANGED <<engines, web, llm>>

\* one pass of the loop: the notes are generated and analysed, the data model
\* is updated, and the loop is left on convergence or after the last pass
Eng_Iteration(new_notes) ==
    /\ eng.pc = "loop" /\ Len(eng.notes) < MaxNotes
    /\ LET u == update_data_model(eng, new_notes, eng.iteration)
       IN  eng' = [u EXCEPT !.executed = @ + 1,
                            !.iteration = IF check_convergence(u.notes) THEN @ ELSE @ + 1,
                            !.pc = IF check_convergence(u.notes) THEN "report"
                                   ELSE IF eng.iteration + 1 < eng.max_iterations THEN "loop"
                                   ELSE "report"]
    /\ UNCHANGED <<engines, web, llm>>

\* one pass of the loop in which the generator or the analysis raises
Eng_IterationRaises ==
    /\ eng.pc = "loop"
    /\ eng' = [eng EXCEPT !.pc = "raised"]
    /\ UNCHANGED <<engines, web, llm>>

\* _generate_final_output(): data_model.notes[-1] raises on an empty list
Eng_Report ==
    /\ eng.pc = "report"
    /\ eng' = [eng EXCEPT !.pc = IF eng.notes = <<>> THEN "raised" ELSE "returned"]
    /\ UNCHANGED <<engines, web, llm>>

NextPipeline ==
    \/ \E n \in 0..MaxIterations : Eng_Construct(n)
    \/ Eng_Run
    \/ \E new_notes \in NoteContents : Eng_Iteration(new_notes)
    \/ Eng_IterationRaises
    \/ Eng_Report

InitPipeline == Init /\ driver = "pipeline"

\* a DeepNotesEngine is constructed and run_pipeline() is called, again and again
SpecPipeline == InitPipeline /\ [][NextPipeline]_vars

\* C24: a run of run_pipeline makes at most max_iterations passes of its loop,
\* each pass appends one note and one iteration_history entry, so that a run
\* adds at most max_iterations history entries, and the loop is left at the
\* first pass whose convergence check is true.
C24_BoundedRefinementLoop ==
    /\ eng.executed <= eng.max_iterations
    /\ Len(eng.notes) = eng.notes_before + eng.executed
    /\ Len(eng.iteration_history) = eng.history_before + eng.executed
    /\ Len(eng.iteration_history) - eng.history_before <= eng.max_iterations
    /\ (eng.pc = "loop" /\ eng.executed >= 1) => ~check_convergence(eng.notes)

\* a run has left its loop on convergence after two of its three passes, the
\* two notes being near but not the same
C24_Witness ==
    /\ eng.pc = "returned"
    /\ eng.max_iterations = 3 /\ eng.executed = 2
    /\ eng.notes_before = 0
    /\ check_convergence(eng.notes)
    /\ eng.notes[1] # eng.notes[2]

----------------------------------------------------------------------------
(* LLMWrapper.generate: llm/llm_wrapper.py *)

\* max_retries of _generate_with_retry
RequestTries == 5

\* the default of max_retries of _correct_and_validate
CorrectionRetries == 3

\* what one request to the provider may come to: a completion whose content
\* validates against the response model, one whose content does not, and the
\* errors of the client library.  RateLimitError, and the status errors 502
\* and 500, carry status_code; APIConnectionError is an APIError without it.
ProviderOutcomes ==
    {"valid", "invalid", "RateLimitError", "APIStatusError502", "APIStatusError500",
     "APIConnectionError"}

\* the exception class of an outcome
ErrorOf(o) ==
    CASE o = "RateLimitError" -> "RateLimitError"
      [] o \in {"APIStatusError502", "APIStatusError500"} -> "APIStatusError"
      [] o = "APIConnectionError" -> "APIConnectionError"
      [] OTHER -> "none"

\* one pass of `for attempt in range(max_retries)` of _generate_with_retry, the
\* request of the pass coming to o: the response is returned, the loop goes
\* on, or an exception is raised
generate_with_retry(attempt, o) ==
    CASE o \in {"valid", "invalid"} -> "return"
      [] o = "RateLimitError" ->
           IF attempt >= RequestTries - 1 THEN "RateLimitError" ELSE "again"
      [] o = "APIConnectionError" -> "AttributeError"
      [] o = "APIStatusError502" ->
           IF attempt < RequestTries - 1 THEN "again" ELSE "APIStatusError"
      [] OTHER -> "APIStatusError"

\* a _correct_and_validate that gives up one call later
Mutant_correct_and_validate_late(max_retries) ==
    IF max_retries < 0 THEN "ValueError" ELSE "prompt"

\* the head of _correct_and_validate: the terminal error, or one more prompt
correct_and_validate(max_retries) ==
    IF max_retries <= 0 THEN "ValueError" ELSE "prompt"

\* generate(prompt, response_model=...) is called and sends its prompt
Llm_Generate(response_model) ==
    /\ driver = "llm" /\ llm.pc \in {"none", "returned", "raised"}
    /\ llm' = [LlmNone EXCEPT !.pc = "request", !.response_model = response_model,
                              !.prompts = 1]
    /\ UNCHANGED <<engines, web, eng>>

\* one request of _generate_with_retry and what follows from it: another
\* attempt, an exception, or the response, which generate returns as it is,
\* returns parsed, or answers with a corrective prompt
Llm_Request(o) ==
    /\ llm.pc = "request"
    /\ LET r == generate_with_retry(llm.attempt, o)
           sent == [llm EXCEPT !.requests = @ + 1, !.last = o]
           arg == IF llm.correcting THEN llm.max_retries - 1 ELSE CorrectionRetries
       IN  llm' =
             IF r = "again"
             THEN IF llm.attempt + 1 < RequestTries
                  THEN [sent EXCEPT !.attempt = @ + 1]
                  ELSE IF llm.response_model
                  THEN [sent EXCEPT !.pc = "raised", !.result = "AttributeError"]
                  ELSE [sent EXCEPT !.pc = "returned", !.result = "None"]
             ELSE IF r # "return"
             THEN [sent EXCEPT !.pc = "raised", !.result = r]
             ELSE IF ~llm.response_model
             THEN [sent EXCEPT !.pc = "returned", !.result = "response"]
             ELSE IF o = "valid"
             THEN [sent EXCEPT !.pc = "returned", !.result = "instance"]
             ELSE IF correct_and_validate(arg) = "ValueError"
             THEN [sent EXCEPT !.pc = "raised", !.result = "ValueError",
                               !.correcting = TRUE, !.max_retries = arg]
             ELSE [sent EXCEPT !.prompts = @ + 1, !.attempt = 0, !.requests = 0,
                               !.correcting = TRUE, !.max_retries = arg]
    /\ UNCHANGED <<engines, web, eng>>

NextLlm ==
    \/ \E response_model \in BOOLEAN : Llm_Generate(response_model)
    \/ \E o \in ProviderOutcomes : Llm_Request(o)

InitLlm == Init /\ driver = "llm"

\* LLMWrapper.generate is called, again and again
SpecLlm == InitLlm /\ [][NextLlm]_vars

\* C25: generate with a response model sends, after its first prompt, at most
\* 3 corrective prompts; when no output validates it then raises ValueError;
\* once an output validates, its parsed instance is returned and nothing more
\* is sent.
C25_BoundedCorrection ==
    llm.response_model =>
       /\ llm.prompts <= 1 + 3
       /\ llm.result = "ValueError" => (llm.prompts = 1 + 3 /\ llm.last = "invalid")
       /\ (llm.pc = "request" /\ llm.last = "invalid" /\ llm.requests = 0)
             => llm.prompts \in 2..4
       /\ llm.last = "valid" => (llm.pc = "returned" /\ llm.result = "instance")

\* the third corrective prompt was answered, after a retry, with an output
\* that does not validate: ValueError
C25_Witness ==
    /\ llm.response_model
    /\ llm.pc = "raised" /\ llm.result = "ValueError"
    /\ llm.prompts = 4 /\ llm.requests >= 2

\* C28: _generate_with_retry makes at most 5 requests per call; a rate-limit
\* error or a 502 on attempts 1 to 4 leads to another attempt and is raised on
\* the 5th; any other API error is raised at once; the call ends by returning
\* a response or by raising, never by returning None.
C28_BoundedProviderRetry ==
    /\ llm.requests <= 5
    /\ llm.result # "None"
    /\ (llm.last \in {"RateLimitError", "APIStatusError502"} /\ llm.requests <= 4)
          => llm.pc = "request"
    /\ (llm.last \in {"RateLimitError", "APIStatusError502"} /\ llm.requests = 5)
          => (llm.pc = "raised" /\ llm.result = ErrorOf(llm.last))
    /\ llm.last \in {"APIStatusError500", "APIConnectionError"}
          => (llm.pc = "raised" /\ llm.result = ErrorOf(llm.last))

----------------------------------------------------------------------------
(* C26: one fragment with entities and relationships *)

\* most whole merge_analysis calls a KnowledgeProcessor is driven through
MaxCalls == 2

\* the relationships of a fragment: none, one, or one after a relationship
\* to an entity that no fragment brings
RelLists ==
    {<<>>} \cup {<<r>> : r \in RelProposals}
    \cup {<<r, q>> : r \in {x \in RelProposals : x.target \notin IDs},
                     q \in {x \in RelProposals : x.target \in IDs}}

\* merge_analysis([fragment of es and rs]) is called on a KnowledgeProcessor;
\* argE and argR keep the fragment, exIds the existing_ids of _merge_entities
Frag_KP(es, rs, policy) ==
    /\ driver = "kp" /\ pc = "idle"
    /\ calls < MaxCalls
    /\ calls' = calls + 1
    /\ \E s \in {KP_merge_analysis(backend, ents, rels, cEnts, cRels, shA, shM,
                                   es, rs, policy)} :
           /\ ents' = s.ents /\ rels' = s.rels
           /\ cEnts' = s.cEnts /\ cRels' = s.cRels
           /\ shA' = s.shA /\ shM' = s.shM
           /\ raised' = s.raised
           /\ lastOp' = IF s.raised THEN "fragment_raise" ELSE "fragment_return"
    /\ argE' = es /\ argR' = rs
    /\ exIds' = DOMAIN cEnts
    /\ UNCHANGED <<mode, kb, pc, groups, retE, retR, oracle, changes, total, twin,
                   web, eng, llm>>

NextFragment ==
    \E es \in EntityLists, rs \in RelLists, policy \in OraclePolicies : Frag_KP(es, rs, policy)

\* KnowledgeProcessor under calls of one fragment each
SpecFragment == InitKP /\ [][NextFragment]_vars

\* the ids a fragment brings that the cached graph did not have
FirstIntroduced == {argE[i].id : i \in 1..Len(argE)} \ exIds

\* C26: within a fragment the entities are merged and the cached graph is
\* refreshed before its relationships are validated: a relationship whose two
\* endpoints are both first introduced by the fragment is admitted to the
\* graph, not dropped.
C26_IntraFragmentEndpointsResolve ==
    lastOp = "fragment_return" =>
       \A i \in 1..Len(argR) :
          (argR[i].source \in FirstIntroduced /\ argR[i].target \in FirstIntroduced)
             => (RelId(argR[i]) \in DOMAIN rels /\ RelId(argR[i]) \in DOMAIN cRels)

\* a fragment has brought both endpoints and the relationship between them to
\* a graph that knew neither
C26_Witness ==
    /\ lastOp = "fragment_return"
    /\ exIds = {}
    /\ \E i \in 1..Len(argR) :
          /\ argR[i].source \in FirstIntroduced /\ argR[i].target \in FirstIntroduced
          /\ argR[i].source # argR[i].target
          /\ RelId(argR[i]) \in DOMAIN rels

----------------------------------------------------------------------------
(* C27: _prune_orphans applied to a graph *)

\* the entities a graph to prune may hold under an id: none, or one of the
\* proposals of that id
EntityChoices(id) == {<<>>} \cup {<<e>> : e \in {x \in EntityProposals : x.id = id}}

\* the graphs to prune: at most one entity per id, any of the relationships,
\* among them one to an entity that is not there
PruneInputs ==
    { [E |-> [id \in {x \in IDs : pick[x] # <<>>} |-> EntityDump(pick[id][1])],
       R |-> [rid \in {RelId(r) : r \in RS} |->
                RelDump(CHOOSE r \in RS : RelId(r) = rid)]]
      : pick \in {f \in [IDs -> UNION {EntityChoices(id) : id \in IDs}] :
                     \A id \in IDs : f[id] \in EntityChoices(id)},
        RS \in {S \in SUBSET RelProposals :
                   \A r, q \in S : RelId(r) = RelId(q) => r = q} }

\* a KnowledgeProcessor whose MemoryStorage, and so whose cached graph, holds
\* the graph g; a FusionProcessor whose knowledge base holds it
InitPrune ==
    /\ \E g \in PruneInputs :
          \/ /\ driver = "kp" /\ backend = "memory"
             /\ ents = g.E /\ rels = g.R /\ cEnts = g.E /\ cRels = g.R
             /\ shA = DOMAIN g.E /\ shM = DOMAIN g.E
             /\ kbE = <<>> /\ kbR = <<>>
          \/ /\ driver = "fusion" /\ backend = "none"
             /\ ents = EmptyMap /\ rels = EmptyMap /\ cEnts = EmptyMap /\ cRels = EmptyMap
             /\ shA = {} /\ shM = {}
             /\ kbE = SetToSeq({g.E[id] : id \in DOMAIN g.E})
             /\ kbR = SetToSeq({g.R[rid] : rid \in DOMAIN g.R})
    /\ objE = Distinct(Len(kbE)) /\ objR = Distinct(Len(kbR))
    /\ pc = "idle" /\ exIds = {} /\ groups = <<>> /\ lastOp = "init"
    /\ argE = <<>> /\ argR = <<>> /\ retE = <<>> /\ retR = <<>>
    /\ oracle = 0 /\ raised = FALSE
    /\ changes = [entities_added |-> 0, entities_updated |-> 0,
                  relationships_added |-> 0, relationships_updated |-> 0]
    /\ total = 0
    /\ twin = [ents |-> EmptyMap, rels |-> EmptyMap, cEnts |-> EmptyMap,
               cRels |-> EmptyMap, shA |-> {}, shM |-> {}, raised |-> FALSE]
    /\ web = WebNone /\ eng = EngNone /\ llm = LlmNone /\ calls = 0

\* KnowledgeProcessor._prune_orphans(); argE and argR keep the cached graph
\* it was applied to
Prune_KP ==
    /\ driver = "kp"
    /\ LET valid == PruneRelationships(cEnts, cRels)
       IN  /\ cRels' = valid
           /\ cEnts' = PruneEntities(cEnts, valid)
           /\ shA' = shA \cap DOMAIN PruneEntities(cEnts, valid)
           /\ shM' = shM \cap DOMAIN PruneEntities(cEnts, valid)
    /\ argE' = SetToSeq({cEnts[id] : id \in DOMAIN cEnts})
    /\ argR' = SetToSeq({cRels[rid] : rid \in DOMAIN cRels})
    /\ lastOp' = "prune_orphans"
    /\ UNCHANGED <<mode, store, kb, pc, exIds, groups, retE, retR, oracle, raised,
                   changes, total, twin, aux>>

\* FusionProcessor._prune_orphans(); argE and argR keep the knowledge base it
\* was applied to
Prune_Fusion ==
    /\ driver = "fusion"
    /\ LET valid == FusionPruneRelationships(kbE, kbR)
       IN  /\ kbR' = valid
           /\ kbE' = FusionPruneEntities(kbE, valid)
           /\ objR' = FusionPruneRelObj(kbE, kbR, objR)
           /\ objE' = FusionPruneObj(kbE, objE, valid)
    /\ argE' = kbE
    /\ argR' = kbR
    /\ lastOp' = "prune_orphans"
    /\ UNCHANGED <<mode, store, cache, pc, exIds, groups, retE, retR, oracle, raised,
                   changes, total, twin, aux>>

NextPrune == Prune_KP \/ Prune_Fusion

\* _prune_orphans over the graphs of PruneInputs
SpecPrune == InitPrune /\ [][NextPrune]_vars

\* the entities and relationships the engine holds after the pruning
PrunedEntityIds ==
    IF driver = "kp" THEN DOMAIN cEnts ELSE EntityIds(kbE)

PrunedRelationships ==
    IF driver = "kp" THEN {cRels[rid] : rid \in DOMAIN cRels}
    ELSE {kbR[i] : i \in 1..Len(kbR)}

\* C27: orphan pruning drops the relationships with a missing endpoint before
\* it computes which entities are connected: an entity without keep_always
\* whose relationships were all dropped as invalid is removed in the same
\* pass, and no relationship that survives refers to a removed entity.
C27_PruneRelationshipsFirst ==
    lastOp = "prune_orphans" =>
       LET before == {argE[i].id : i \in 1..Len(argE)}
           valid  == {argR[i] : i \in {j \in 1..Len(argR) :
                                   argR[j].source \in before /\ argR[j].target \in before}}
       IN  /\ {RelId(r) : r \in PrunedRelationships} = {RelId(r) : r \in valid}
           /\ \A i \in 1..Len(argE) :
                 (/\ ~KeepAlways(argE[i])
                  /\ \A r \in valid : r.source # argE[i].id /\ r.target # argE[i].id)
                    => argE[i].id \notin PrunedEntityIds
           /\ \A r \in PrunedRelationships :
                 r.source \in PrunedEntityIds /\ r.target \in PrunedEntityIds

\* a KnowledgeProcessor has pruned a graph in which an entity without
\* keep_always had one relationship, to an entity that was not there: the
\* relationship and the entity are gone
C27_Witness ==
    /\ driver = "kp" /\ lastOp = "prune_orphans"
    /\ \E i \in 1..Len(argE), j \in 1..Len(argR) :
          /\ ~KeepAlways(argE[i])
          /\ argR[j].source = argE[i].id
          /\ argR[j].target \notin {argE[k].id : k \in 1..Len(argE)}
          /\ Len(argR) = 1
          /\ argE[i].id \notin DOMAIN cEnts
          /\ cRels = EmptyMap

----------------------------------------------------------------------------
(* C29: how the cached graph and the backend's records change *)

\* the steps of a KnowledgeProcessor in which a merge call of the backend is made
BackendMergeCall ==
    lastOp' \in {"add_entity", "resolve_entity", "add_relationship",
                 "update_relationship", "resolve_group"}

\* C29: the cached graph of a KnowledgeProcessor changes only by being
\* replaced with a fresh snapshot of the backend (no step changes its entity
\* list, its relationship list or a cached entity's attributes or metadata in
\* place), and a record of the backend changes only in a step that makes a
\* backend merge call.
C29_Step ==
    driver = "kp" =>
       /\ (cEnts' # cEnts \/ cRels' # cRels) =>
             (cEnts' = ents /\ cRels' = rels /\ UNCHANGED store)
       /\ (ents' # ents \/ rels' # rels) => BackendMergeCall

C29_CacheOnlyReplacedWholesale == [][C29_Step]_vars

----------------------------------------------------------------------------
(* C30: what a KnowledgeProcessor leaves in the backend *)

\* C30: no step of a KnowledgeProcessor (entity or relationship merge,
\* duplicate grouping, orphan pruning, compaction) removes an entity id or a
\* relationship id from the backend: the backend's id sets only grow.
C30_Step ==
    driver = "kp" =>
       /\ DOMAIN ents \subseteq DOMAIN ents'
       /\ DOMAIN rels \subseteq DOMAIN rels'

C30_BackendIdsOnlyGrow == [][C30_Step]_vars

\* orphan pruning has dropped an entity from the cached graph and the backend
\* still holds it
C30_Witness ==
    /\ driver = "kp" /\ lastOp = "prune"
    /\ \E id \in DOMAIN ents : id \notin DOMAIN cEnts

====
